---- MODULE Spec2Model ----
(***************************************************************************)
(* The frame-processing pipeline of the privacy-blurring application:      *)
(* VideoProcessor.process_frame with its collaborators ObjectDetector,     *)
(* TextAnalyzer and BlurTechniques.                                        *)
(*                                                                         *)
(* Representation.                                                         *)
(*  - A Python str is a tuple of one-character strings.                    *)
(*  - A Python dict whose iteration order matters (the detector's results, *)
(*    detection_counts) is a sequence of <<key, value>> pairs in insertion *)
(*    order; blur_rules is a function from its keys to its values.         *)
(*  - A frame is a numpy array: a record with an identity (id), a width, a *)
(*    height and its pixels.  The model observes the pixels on a lattice   *)
(*    of step Step.  The value of a pixel is the history of the OpenCV     *)
(*    filters applied to it: <<>> is the raw pixel, and each filter call   *)
(*    appends <<filter, x0, y0, w, h>>, the filter and the window it was   *)
(*    given (OpenCV is a capability provider; its output is a term).       *)
(*  - Confidences are in percent (0.5 is 50).  The coordinates the primary *)
(*    detector reports are floats: they are counted in half pixels.        *)
(***************************************************************************)
EXTENDS Integers, Sequences, FiniteSets, TLC

VARIABLES
  processor,        \* the VideoProcessor: its three settings
  object_detector,  \* its ObjectDetector
  text_analyzer,    \* its TextAnalyzer
  env,              \* which calls of the providers raise
  buffers,          \* the frames the caller holds, one for each scene
  last,             \* the last call of process_frame and what it gave
  ref,              \* observer: [call, between], an earlier call kept for comparison
  unit,             \* the last direct call of a method of a collaborator and its result
  app,              \* the run of the script of the application: st.session_state and its position
  db,               \* the tables of the database
  demo              \* the DemoVideoGenerator

vars ==
  <<processor, object_detector, text_analyzer, env, buffers, last, ref, unit, app, db, demo>>

(***************************************************************************)
(* Bounds of the model.                                                    *)
(***************************************************************************)
\* size of the frames the camera delivers, and the step of the pixel lattice
FrameW == 160

FrameH == 120

Step == 20

(***************************************************************************)
(* Python values.                                                          *)
(***************************************************************************)
None == "None"

Upper == <<"A","B","C","D","E","F","G","H","I","J","K","L","M",
           "N","O","P","Q","R","S","T","U","V","W","X","Y","Z">>

Lower == <<"a","b","c","d","e","f","g","h","i","j","k","l","m",
           "n","o","p","q","r","s","t","u","v","w","x","y","z">>

\* str.lower()
lower(s) ==
  [i \in DOMAIN s |->
     IF \E k \in DOMAIN Upper : Upper[k] = s[i]
     THEN Lower[CHOOSE k \in DOMAIN Upper : Upper[k] = s[i]]
     ELSE s[i]]

\* str.strip() on the whitespace the model's texts use
RECURSIVE lstrip(_)
lstrip(s) == IF s # <<>> /\ Head(s) = " " THEN lstrip(Tail(s)) ELSE s

RECURSIVE rstrip(_)
rstrip(s) ==
  IF s # <<>> /\ s[Len(s)] = " " THEN rstrip(SubSeq(s, 1, Len(s) - 1)) ELSE s

strip(s) == rstrip(lstrip(s))

\* `sub in s` for two str
str_contains(s, sub) ==
  \E i \in 0..(Len(s) - Len(sub)) :
     \A k \in 1..Len(sub) : s[i + k] = sub[k]

\* int(v) of a float v counted in half pixels: truncation toward zero
int(v) == IF v >= 0 THEN v \div 2 ELSE -((-v) \div 2)

\* the bounds of a[start:stop] on an axis of length n (Python slice semantics)
slice_index(i, n) ==
  LET j == IF i < 0 THEN i + n ELSE i
  IN  IF j < 0 THEN 0 ELSE IF j > n THEN n ELSE j

\* dict.get(key, default) of a mapping held as a function
dict_get(d, key, default) == IF key \in DOMAIN d THEN d[key] ELSE default

\* an insertion-ordered dict held as a sequence of <<key, value>> pairs
od_keys(d) == [i \in DOMAIN d |-> d[i][1]]

od_has(d, key) == \E i \in DOMAIN d : d[i][1] = key

od_get(d, key) == d[CHOOSE i \in DOMAIN d : d[i][1] = key][2]

\* d[key] = value
od_set(d, key, value) ==
  IF od_has(d, key)
  THEN [i \in DOMAIN d |-> IF d[i][1] = key THEN <<key, value>> ELSE d[i]]
  ELSE Append(d, <<key, value>>)

(***************************************************************************)
(* numpy arrays.                                                           *)
(***************************************************************************)
\* the observed pixels of the window of w x h pixels at (x0, y0)
Lattice(x0, y0, w, h) ==
  {x \in x0..(x0 + w - 1) : x % Step = 0} \X {y \in y0..(y0 + h - 1) : y % Step = 0}

\* a raw frame of the camera: every pixel has an empty history
RawFrame(scene) ==
  [id |-> scene, scene |-> scene, x0 |-> 0, y0 |-> 0, w |-> FrameW, h |-> FrameH,
   px |-> [p \in Lattice(0, 0, FrameW, FrameH) |-> <<>>]]

\* ndarray.size of an h x w x 3 array
size(image) == image.h * image.w * 3

\* processed_frame = frame: the same array under another name
copy_alias(frame) == frame

\* frame.copy(): a new array holding the same pixels
copy(frame) == [frame EXCEPT !.id = "copy"]

\* image[r1:r2, c1:c2]: a view of rows r1..r2 and columns c1..c2
slice(image, r1, r2, c1, c2) ==
  LET ra == slice_index(r1, image.h)
      rb == slice_index(r2, image.h)
      ca == slice_index(c1, image.w)
      cb == slice_index(c2, image.w)
      hh == IF rb > ra THEN rb - ra ELSE 0
      ww == IF cb > ca THEN cb - ca ELSE 0
  IN  [id |-> image.id, scene |-> image.scene, x0 |-> image.x0 + ca, y0 |-> image.y0 + ra,
       w |-> ww, h |-> hh,
       px |-> [p \in Lattice(image.x0 + ca, image.y0 + ra, ww, hh) |-> image.px[p]]]

\* image[r1:r2, c1:c2] = value, for a value of the shape of the slice
slice_assign(image, r1, r2, c1, c2, value) ==
  LET target == slice(image, r1, r2, c1, c2)
  IN  [image EXCEPT !.px =
         [p \in DOMAIN image.px |->
            IF p \in DOMAIN target.px
            THEN value.px[<<p[1] - target.x0 + value.x0, p[2] - target.y0 + value.y0>>]
            ELSE image.px[p]]]

(***************************************************************************)
(* BlurTechniques (src/utils/blur_techniques.py).  cv_fail is the set of   *)
(* OpenCV functions that raise when called.                                *)
(***************************************************************************)
\* the array an OpenCV filter returns: a new array of the shape of its input
cv2_filter(name, image) ==
  [image EXCEPT !.id = "filtered",
                !.px = [p \in DOMAIN image.px |->
                          Append(image.px[p],
                                 <<name, image.x0, image.y0, image.w, image.h>>)]]

\* BlurTechniques(): the parameters __init__ sets
BlurTechniques_init ==
  [gaussian_kernel_size |-> <<21, 21>>, pixelate_block_size |-> 15,
   edge_preserving_diameter |-> 15]

\* the value None where an image is expected
NoneImage ==
  [id |-> None, scene |-> None, x0 |-> 0, y0 |-> 0, w |-> 0, h |-> 0,
   px |-> [p \in {} |-> <<>>]]

\* image is None or image.size == 0
invalid_image(image) == image.id = None \/ size(image) = 0

\* cv2.GaussianBlur takes a kernel whose width and height are odd and positive
valid_kernel(kernel_size) ==
  /\ kernel_size[1] > 0 /\ kernel_size[1] % 2 = 1
  /\ kernel_size[2] > 0 /\ kernel_size[2] % 2 = 1

\* the methods of BlurTechniques.  An optional parameter is <<>> for None and <<v>>
\* for the value v; the result is [exc, image].
BlurTechniques_gaussian_blur(self, image, kernel_size, cv_fail) ==
  LET k == IF kernel_size = <<>> THEN self.gaussian_kernel_size ELSE kernel_size[1]
      try == IF "GaussianBlur" \in cv_fail \/ ~valid_kernel(k)
             THEN [exc |-> "cv2.error", image |-> image]
             ELSE [exc |-> None, image |-> cv2_filter("gaussian", image)]
  IN  IF invalid_image(image) THEN [exc |-> None, image |-> image]
      ELSE IF try.exc # None THEN [exc |-> None, image |-> image]
      ELSE try

\* pixelate with the new dimensions calculated before the try
BlurTechniques_pixelate_division_outside_try(self, image, block_size, cv_fail) ==
  LET b == IF block_size = <<>> THEN self.pixelate_block_size ELSE block_size[1]
      try == IF "resize" \in cv_fail
             THEN [exc |-> "cv2.error", image |-> image]
             ELSE [exc |-> None, image |-> cv2_filter("pixelate", image)]
  IN  IF invalid_image(image) THEN [exc |-> None, image |-> image]
      ELSE IF b = 0 THEN [exc |-> "ZeroDivisionError", image |-> image]
      ELSE IF try.exc # None THEN [exc |-> None, image |-> image]
      ELSE try

BlurTechniques_pixelate(self, image, block_size, cv_fail) ==
  LET b == IF block_size = <<>> THEN self.pixelate_block_size ELSE block_size[1]
      try == IF b = 0 THEN [exc |-> "ZeroDivisionError", image |-> image]
             ELSE IF "resize" \in cv_fail
             THEN [exc |-> "cv2.error", image |-> image]
             ELSE [exc |-> None, image |-> cv2_filter("pixelate", image)]
  IN  IF invalid_image(image) THEN [exc |-> None, image |-> image]
      ELSE IF try.exc # None THEN [exc |-> None, image |-> image]
      ELSE try

\* the calls of the two OpenCV filters of edge_preserving_blur, with their arguments
\* (sigma_r is 0.1: one tenth)
edgePreservingFilter_call(diameter) ==
  [function |-> "edgePreservingFilter", flags |-> "NORMCONV_FILTER",
   sigma_s |-> diameter, sigma_r_tenths |-> 1]

bilateralFilter_call(diameter) ==
  [function |-> "bilateralFilter", d |-> diameter, sigmaColor |-> 75, sigmaSpace |-> 75]

\* edge_preserving_blur without the bilateral filter
BlurTechniques_edge_preserving_blur_no_fallback(self, image, diameter, cv_fail) ==
  LET d == IF diameter = <<>> THEN self.edge_preserving_diameter ELSE diameter[1]
      try == IF "edgePreservingFilter" \in cv_fail
             THEN [exc |-> "cv2.error", image |-> image]
             ELSE [exc |-> None, image |-> cv2_filter("edge_preserving", image)]
  IN  IF invalid_image(image) THEN [exc |-> None, image |-> image, calls |-> <<>>]
      ELSE IF try.exc = None
      THEN [exc |-> None, image |-> try.image, calls |-> <<edgePreservingFilter_call(d)>>]
      ELSE [exc |-> None, image |-> image, calls |-> <<edgePreservingFilter_call(d)>>]

\* calls is the sequence of the calls of OpenCV filters the method made
BlurTechniques_edge_preserving_blur(self, image, diameter, cv_fail) ==
  LET d == IF diameter = <<>> THEN self.edge_preserving_diameter ELSE diameter[1]
      try == IF "edgePreservingFilter" \in cv_fail
             THEN [exc |-> "cv2.error", image |-> image]
             ELSE [exc |-> None, image |-> cv2_filter("edge_preserving", image)]
      try_bilateral ==
             IF "bilateralFilter" \in cv_fail
             THEN [exc |-> "cv2.error", image |-> image]
             ELSE [exc |-> None, image |-> cv2_filter("bilateral", image)]
  IN  IF invalid_image(image) THEN [exc |-> None, image |-> image, calls |-> <<>>]
      ELSE IF try.exc = None
      THEN [exc |-> None, image |-> try.image, calls |-> <<edgePreservingFilter_call(d)>>]
      ELSE IF try_bilateral.exc = None
      THEN [exc |-> None, image |-> try_bilateral.image,
            calls |-> <<edgePreservingFilter_call(d), bilateralFilter_call(d)>>]
      ELSE [exc |-> None, image |-> image,
            calls |-> <<edgePreservingFilter_call(d), bilateralFilter_call(d)>>]

\* max(a, b) and min(a, b) of two integers
max(a, b) == IF a >= b THEN a ELSE b

min(a, b) == IF a <= b THEN a ELSE b

\* the new dimensions with the quotients rounded up
pixelate_new_size_rounded_up(height, width, block_size) ==
  <<max(1, (height + block_size - 1) \div block_size),
    max(1, (width + block_size - 1) \div block_size)>>

\* (new_height, new_width) of pixelate
pixelate_new_size(height, width, block_size) ==
  <<max(1, height \div block_size), max(1, width \div block_size)>>

\* cv2.resize(src, (dst_w, dst_h), interpolation=cv2.INTER_NEAREST): for every pixel
\* <<row, column>> of the destination, the pixel of the source it takes its value from
resize_nearest(src_h, src_w, dst_h, dst_w) ==
  [p \in (0..(dst_h - 1)) \X (0..(dst_w - 1)) |->
     <<min((p[1] * src_h) \div dst_h, src_h - 1),
       min((p[2] * src_w) \div dst_w, src_w - 1)>>]

\* pixelate on an array of height x width with a block size >= 1, by its shapes: temp
\* is the shape of the array resized down (<<>> when resize raised and the input is
\* returned), cell gives for every pixel of the result the pixel of temp it shows
pixelate_cells(height, width, block_size, cv_fail) ==
  LET new == pixelate_new_size(height, width, block_size)
  IN  IF "resize" \in cv_fail
      THEN [temp |-> <<>>,
            cell |-> [p \in (0..(height - 1)) \X (0..(width - 1)) |-> p]]
      ELSE [temp |-> new, cell |-> resize_nearest(new[1], new[2], height, width)]

\* the calls of process_frame: self.blur_techniques.gaussian_blur(region), and so on
gaussian_blur(image, cv_fail) ==
  BlurTechniques_gaussian_blur(BlurTechniques_init, image, <<>>, cv_fail).image

pixelate(image, cv_fail) ==
  BlurTechniques_pixelate(BlurTechniques_init, image, <<>>, cv_fail).image

edge_preserving_blur(image, cv_fail) ==
  BlurTechniques_edge_preserving_blur(BlurTechniques_init, image, <<>>, cv_fail).image

(***************************************************************************)
(* The capability providers: what each reports on the frames of the three  *)
(* scenes the camera delivers.  Providers are deterministic: their output  *)
(* is a function of the frame.                                             *)
(***************************************************************************)
\* "desk" and "lab" are what the providers report on real frames: every box lies
\* in the frame.  On "street" the boxes leave the frame.
Scenes == {"desk", "lab"}

AllScenes == Scenes \cup {"street"}

\* self.model(frame, conf)[0].boxes.data.tolist(): <<x1, y1, x2, y2, conf, class_id>>,
\* coordinates in half pixels, conf in percent
yolo_boxes(frame) ==
  CASE frame.scene = "desk" ->
         << <<40, 0, 160, 180, 90, 0>>,       \* person (20,0)-(80,90)
            <<80, 0, 200, 120, 55, 0>>,       \* person (40,0)-(100,60)
            <<121, 40, 241, 120, 60, 67>>,    \* cell phone (60.5,20)-(120.5,60), 3:2
            <<80, 40, 200, 200, 70, 73>>,     \* book (40,20)-(100,100)
            <<160, 80, 320, 240, 40, 62>>,    \* tv (80,40)-(160,120)
            <<40, 80, 120, 80, 90, 73>>,      \* book of height 0
            <<0, 0, 40, 40, 99, 5>> >>        \* a class that is not mapped
    [] frame.scene = "street" ->
         << <<-40, 20, 300, 200, 90, 0>>,     \* person (-20,10)-(150,100)
            <<240, 160, 400, 320, 90, 62>>,   \* tv (120,80)-(200,160)
            <<-120, 40, -40, 120, 90, 62>>,   \* tv (-60,20)-(-20,60)
            <<100, 100, 100, 180, 90, 67>> >> \* cell phone of width 0
    [] frame.scene = "lab" ->
         << <<0, 0, 120, 120, 90, 0>>,        \* person (0,0)-(60,60)
            <<80, 80, 200, 160, 90, 63>>,     \* laptop (40,40)-(100,80)
            <<160, 0, 320, 80, 90, 62>>,      \* tv (80,0)-(160,40)
            <<0, 120, 120, 200, 90, 73>>,     \* book (0,60)-(60,100), 3:2
            <<200, 40, 280, 160, 90, 0>> >>   \* person (100,20)-(140,80)

\* self.face_cascade.detectMultiScale(gray, 1.1, 4): <<x, y, w, h>>
cascade_faces(frame) ==
  CASE frame.scene = "desk" -> << <<20, 0, 60, 40>> >>
    [] frame.scene = "street" -> << <<100, 60, 80, 80>> >>
    [] frame.scene = "lab" -> << <<0, 0, 40, 40>>, <<100, 20, 40, 40>> >>

\* the contours of cv2.Canny(gray, 100, 200) found with RETR_TREE, each as
\* <<len(approxPolyDP(contour)), x, y, w, h>> with (x, y, w, h) its bounding rectangle
plate_contours(frame) ==
  CASE frame.scene = "desk" ->
         << <<4, 40, 80, 80, 30>>, <<6, 0, 0, 100, 30>>, <<4, 0, 0, 50, 20>> >>
    [] frame.scene = "street" -> << >>
    [] frame.scene = "lab" -> << <<4, 80, 0, 70, 30>>, <<4, 0, 100, 130, 20>> >>

\* the contours of cv2.Canny(blurred, 50, 150) found with RETR_EXTERNAL
document_contours(frame) ==
  CASE frame.scene = "desk" ->
         << <<4, 0, 0, 110, 110>>, <<4, 60, 20, 80, 50>>, <<4, 40, 60, 100, 50>>,
            <<4, 20, 60, 130, 50>>, <<4, 0, 0, 40, 40>>, <<5, 0, 0, 80, 50>> >>
    [] frame.scene = "street" -> << >>
    [] frame.scene = "lab" -> << <<4, 0, 60, 80, 50>>, <<4, 0, 0, 100, 100>> >>

(***************************************************************************)
(* ObjectDetector (src/utils/object_detector.py).  self is the record      *)
(* [model, face_cascade, confidence]; e is the environment.  A call        *)
(* returns [exc, ...]: exc is None, or the exception that left it.         *)
(***************************************************************************)
Categories == <<"face", "document", "credit_card", "license_plate", "screen">>

class_mapping ==
  [c \in {0, 57, 62, 63, 67, 73} |->
     CASE c = 0 -> "person"
       [] c = 57 -> "document"
       [] c = 62 -> "screen"
       [] c = 63 -> "laptop"
       [] c = 67 -> "document"
       [] c = 73 -> "document"]

\* results[key].append(box), which creates the missing key
results_setdefault_append(results, key, box) ==
  [exc |-> None,
   results |-> od_set(results, key,
                      Append(IF od_has(results, key) THEN od_get(results, key) ELSE <<>>,
                             box))]

\* results[key].append(box)
results_append(results, key, box) ==
  IF od_has(results, key)
  THEN [exc |-> None, results |-> od_set(results, key, Append(od_get(results, key), box))]
  ELSE [exc |-> "KeyError", results |-> results]

\* the loop over the detections without the test of the confidence
RECURSIVE yolo_pass_ungated(_, _, _)
yolo_pass_ungated(detections, confidence, results) ==
  IF detections = <<>> THEN [exc |-> None, results |-> results]
  ELSE
    LET d == Head(detections)
        x1 == d[1]
        y1 == d[2]
        x2 == d[3]
        y2 == d[4]
        conf == d[5]
        class_id == d[6]
        obj_type == dict_get(class_mapping, class_id, None)
        face_height == 2 * ((y2 - y1) \div 6)
        width == x2 - x1
        height == y2 - y1
        is_card == height > 0 /\ 14 * height <= 10 * width /\ 10 * width <= 17 * height
        box == <<int(x1), int(y1), int(x2), int(y2)>>
        r == IF obj_type = "person"
             THEN results_append(results, "face",
                                 <<int(x1), int(y1), int(x2), int(y1 + face_height)>>)
             ELSE IF obj_type = "document"
             THEN IF is_card
                  THEN results_append(results, "credit_card", box)
                  ELSE results_append(results, "document", box)
             ELSE results_append(results, obj_type, box)
    IN  IF obj_type = None
        THEN yolo_pass_ungated(Tail(detections), confidence, results)
        ELSE IF r.exc # None THEN r
        ELSE yolo_pass_ungated(Tail(detections), confidence, r.results)

\* the loop over the detections of the primary detector
RECURSIVE yolo_pass(_, _, _)
yolo_pass(detections, confidence, results) ==
  IF detections = <<>> THEN [exc |-> None, results |-> results]
  ELSE
    LET d == Head(detections)
        x1 == d[1]
        y1 == d[2]
        x2 == d[3]
        y2 == d[4]
        conf == d[5]
        class_id == d[6]
        obj_type == dict_get(class_mapping, class_id, None)
        face_height == 2 * ((y2 - y1) \div 6)
        width == x2 - x1
        height == y2 - y1
        is_card == height > 0 /\ 14 * height <= 10 * width /\ 10 * width <= 17 * height
        box == <<int(x1), int(y1), int(x2), int(y2)>>
        r == IF obj_type = "person"
             THEN results_append(results, "face",
                                 <<int(x1), int(y1), int(x2), int(y1 + face_height)>>)
             ELSE IF obj_type = "document"
             THEN IF is_card
                  THEN results_append(results, "credit_card", box)
                  ELSE results_append(results, "document", box)
             ELSE results_append(results, obj_type, box)
    IN  IF conf < confidence \/ obj_type = None
        THEN yolo_pass(Tail(detections), confidence, results)
        ELSE IF r.exc # None THEN r
        ELSE yolo_pass(Tail(detections), confidence, r.results)

\* the license plate pass over the contours of the frame
RECURSIVE plate_pass(_, _)
plate_pass(contours, results) ==
  IF contours = <<>> THEN [exc |-> None, results |-> results]
  ELSE
    LET c == Head(contours)
        x == c[2]
        y == c[3]
        w == c[4]
        h == c[5]
    IN  IF c[1] # 4 THEN plate_pass(Tail(contours), results)
        ELSE IF h = 0 THEN [exc |-> "ZeroDivisionError", results |-> results]
        ELSE IF 2 * h <= w /\ w <= 6 * h /\ w > 60 /\ h > 20
        THEN plate_pass(Tail(contours),
                        results_append(results, "license_plate",
                                       <<x, y, x + w, y + h>>).results)
        ELSE plate_pass(Tail(contours), results)

RECURSIVE append_faces(_, _)
append_faces(faces, results) ==
  IF faces = <<>> THEN results
  ELSE LET f == Head(faces)
       IN  append_faces(Tail(faces),
                        results_append(results, "face",
                                       <<f[1], f[2], f[1] + f[3], f[2] + f[4]>>).results)

fallback_face_detection(self, frame, results) ==
  IF self.face_cascade = None
  THEN [exc |-> "AttributeError", results |-> results]
  ELSE [exc |-> None, results |-> append_faces(cascade_faces(frame), results)]

\* _detect_documents_and_cards with a document of at least 100 x 100
RECURSIVE detect_documents_and_cards_min_size(_, _)
detect_documents_and_cards_min_size(contours, results) ==
  IF contours = <<>> THEN [exc |-> None, results |-> results]
  ELSE
    LET c == Head(contours)
        x == c[2]
        y == c[3]
        w == c[4]
        h == c[5]
        box == <<x, y, x + w, y + h>>
        rest == Tail(contours)
    IN  IF c[1] # 4 \/ w < 50 \/ h < 50
        THEN detect_documents_and_cards_min_size(rest, results)
        ELSE IF 14 * h <= 10 * w /\ 10 * w <= 17 * h
        THEN detect_documents_and_cards_min_size(rest, results_append(results, "credit_card", box).results)
        ELSE IF 7 * h <= 10 * w /\ 10 * w <= 14 * h /\ w >= 100 /\ h >= 100
        THEN detect_documents_and_cards_min_size(rest, results_append(results, "document", box).results)
        ELSE IF 17 * h < 10 * w /\ 10 * w <= 25 * h
        THEN detect_documents_and_cards_min_size(rest, results_append(results, "screen", box).results)
        ELSE IF 10 * w > 25 * h
        THEN detect_documents_and_cards_min_size(rest, results_append(results, "license_plate", box).results)
        ELSE detect_documents_and_cards_min_size(rest, results)

RECURSIVE detect_documents_and_cards(_, _)
detect_documents_and_cards(contours, results) ==
  IF contours = <<>> THEN [exc |-> None, results |-> results]
  ELSE
    LET c == Head(contours)
        x == c[2]
        y == c[3]
        w == c[4]
        h == c[5]
        box == <<x, y, x + w, y + h>>
        rest == Tail(contours)
    IN  IF c[1] # 4 \/ w < 50 \/ h < 50
        THEN detect_documents_and_cards(rest, results)
        ELSE IF 14 * h <= 10 * w /\ 10 * w <= 17 * h
        THEN detect_documents_and_cards(rest, results_append(results, "credit_card", box).results)
        ELSE IF 7 * h <= 10 * w /\ 10 * w <= 14 * h /\ w > 100 /\ h > 100
        THEN detect_documents_and_cards(rest, results_append(results, "document", box).results)
        ELSE IF 17 * h < 10 * w /\ 10 * w <= 25 * h
        THEN detect_documents_and_cards(rest, results_append(results, "screen", box).results)
        ELSE IF 10 * w > 25 * h
        THEN detect_documents_and_cards(rest, results_append(results, "license_plate", box).results)
        ELSE detect_documents_and_cards(rest, results)

\* results kept from one call of detect to the next
initial_results_kept ==
  IF last.called /\ last.detect_exc = None THEN last.detected_objects
  ELSE [i \in DOMAIN Categories |-> <<Categories[i], <<>> >>]

\* results = {} followed by the loop that gives every object type an empty list
initial_results == [i \in DOMAIN Categories |-> <<Categories[i], <<>> >>]

\* confidence is <<>> for None and <<c>> for the threshold c
detect(self, frame, confidence, e) ==
  LET self1 == IF confidence # <<>> THEN [self EXCEPT !.confidence = confidence[1]] ELSE self
      primary ==
        IF e.yolo_raises THEN [exc |-> "RuntimeError", results |-> initial_results]
        ELSE LET y == yolo_pass(yolo_boxes(frame), self1.confidence, initial_results)
             IN  IF y.exc # None THEN y ELSE plate_pass(plate_contours(frame), y.results)
      faces == fallback_face_detection(self1, frame,
                 IF self1.model # None THEN primary.results ELSE initial_results)
      r == IF self1.model # None
           THEN IF primary.exc # None THEN faces ELSE primary
           ELSE IF faces.exc # None THEN faces
                ELSE detect_documents_and_cards(document_contours(frame), faces.results)
  IN  [exc |-> r.exc, results |-> r.results, self |-> self1]

(***************************************************************************)
(* TextAnalyzer (src/utils/text_analyzer.py).  self is the record          *)
(* [tesseract_available, nlp_available, sensitive_keywords].               *)
(***************************************************************************)
\* an entry of a keyword list: a str, or a value of another type
Str(s) == [type |-> "str", s |-> s]

NotStr == [type |-> "int", s |-> <<>>]

default_keywords ==
  << Str(<<"c", "o", "n", "f", "i", "d", "e", "n", "t", "i", "a", "l">>),
     Str(<<"p", "r", "i", "v", "a", "t", "e">>),
     Str(<<"s", "e", "c", "r", "e", "t">>),
     Str(<<"p", "a", "s", "s", "w", "o", "r", "d">>),
     Str(<<"v", "i", "s", "a">>),
     Str(<<"m", "a", "s", "t", "e", "r", "c", "a", "r", "d">>),
     Str(<<"a", "m", "e", "r", "i", "c", "a", "n", " ", "e", "x", "p", "r", "e", "s", "s">>),
     Str(<<"c", "v", "v">>),
     Str(<<"s", "s", "n">>),
     Str(<<"s", "o", "c", "i", "a", "l", " ", "s", "e", "c", "u", "r", "i", "t", "y">>) >>

\* pytesseract.image_to_data(thresh, ...): the fragments the OCR engine recognizes
ocr_data(frame) ==
  CASE frame.scene = "desk" ->
         << [text |-> <<"P", "A", "S", "S", "W", "O", "R", "D">>, conf |-> 90, left |-> 60, top |-> 20, width |-> 40, height |-> 20],
            [text |-> <<"h", "e", "l", "l", "o">>, conf |-> 95, left |-> 100, top |-> 100, width |-> 40, height |-> 20],
            [text |-> <<"1", "/", "2", "/", "9", "9">>, conf |-> 80, left |-> 0, top |-> 100, width |-> 40, height |-> 20],
            [text |-> <<"s", "e", "c", "r", "e", "t">>, conf |-> 50, left |-> 0, top |-> 0, width |-> 40, height |-> 20],
            [text |-> <<" ", " ", " ">>, conf |-> 95, left |-> 0, top |-> 40, width |-> 20, height |-> 20],
            [text |-> <<"s", "s", "n">>, conf |-> 88, left |-> 140, top |-> 0, width |-> 0, height |-> 20] >>
    [] frame.scene = "street" ->
         << [text |-> <<"V", "i", "s", "a">>, conf |-> 90, left |-> 150, top |-> 110, width |-> 40, height |-> 20],
            [text |-> <<"a", "b">>, conf |-> 90, left |-> 0, top |-> 0, width |-> 20, height |-> 20],
            [text |-> <<"c", "v", "v">>, conf |-> 60, left |-> 40, top |-> 40, width |-> 40, height |-> 20],
            [text |-> <<>>, conf |-> 99, left |-> 0, top |-> 60, width |-> 20, height |-> 20] >>
    [] frame.scene = "lab" ->
         << [text |-> <<"h", "e", "l", "l", "o">>, conf |-> 95, left |-> 0, top |-> 0, width |-> 60, height |-> 20],
            [text |-> <<"m", "e", "m", "o">>, conf |-> 61, left |-> 80, top |-> 20, width |-> 40, height |-> 20] >>

\* the loop over the OCR results with a confidence of at least 60
RECURSIVE ocr_loop_at_least_60(_)
ocr_loop_at_least_60(data) ==
  IF data = <<>> THEN <<>>
  ELSE LET d == Head(data)
       IN  IF d.conf >= 60 /\ strip(d.text) # <<>>
           THEN <<[text |-> d.text, box |-> <<d.left, d.top, d.width, d.height>>]>>
                \o ocr_loop_at_least_60(Tail(data))
           ELSE ocr_loop_at_least_60(Tail(data))

\* the loop over the OCR results
RECURSIVE ocr_loop(_)
ocr_loop(data) ==
  IF data = <<>> THEN <<>>
  ELSE LET d == Head(data)
       IN  IF d.conf > 60 /\ strip(d.text) # <<>>
           THEN <<[text |-> d.text, box |-> <<d.left, d.top, d.width, d.height>>]>>
                \o ocr_loop(Tail(data))
           ELSE ocr_loop(Tail(data))

extract_text(self, gray_frame, e) ==
  IF ~self.tesseract_available THEN <<>>
  ELSE IF e.ocr_raises THEN <<>>
  ELSE ocr_loop(ocr_data(gray_frame))

\* re.search(pattern, text) for some pattern of self.patterns: of the texts of the
\* model only the date 1/2/99 matches one (the date pattern)
patterns_match(text) == text = <<"1", "/", "2", "/", "9", "9">>

\* self.nlp(text).ents: the pipeline is spacy.blank("en") with a sentencizer and
\* has no entity recognizer
ents(text) == {}

\* the loop over self.sensitive_keywords: TRUE at the first keyword found in the
\* text; `keyword in text_lower` raises for a keyword that is not a str
RECURSIVE keyword_loop(_, _)
keyword_loop(keywords, text_lower) ==
  IF keywords = <<>> THEN [exc |-> None, value |-> FALSE]
  ELSE IF Head(keywords).type # "str" THEN [exc |-> "TypeError", value |-> FALSE]
  ELSE IF str_contains(text_lower, Head(keywords).s) THEN [exc |-> None, value |-> TRUE]
  ELSE keyword_loop(Tail(keywords), text_lower)

\* is_sensitive_text without the test of the length
is_sensitive_text_any_length(self, text) ==
  LET k == keyword_loop(self.sensitive_keywords, lower(text))
  IN  IF k.exc # None \/ k.value THEN k
      ELSE [exc |-> None, value |-> patterns_match(text)]

is_sensitive_text(self, text) ==
  IF text = <<>> \/ Len(text) < 3 THEN [exc |-> None, value |-> FALSE]
  ELSE LET k == keyword_loop(self.sensitive_keywords, lower(text))
       IN  IF k.exc # None \/ k.value THEN k
           ELSE IF patterns_match(text) THEN [exc |-> None, value |-> TRUE]
           ELSE IF self.nlp_available
                   /\ \E ent \in ents(text) : ent \in {"PERSON", "ORG", "GPE"}
                THEN [exc |-> None, value |-> TRUE]
           ELSE [exc |-> None, value |-> FALSE]

(***************************************************************************)
(* VideoProcessor (src/utils/video_processor.py).  self is the record      *)
(* [detection_confidence, blur_rules, sensitive_keywords].                 *)
(***************************************************************************)
default_blur_rules ==
  [face |-> "pixelate", document |-> "gaussian", credit_card |-> "pixelate",
   license_plate |-> "pixelate", screen |-> "edge_preserving", text |-> "gaussian"]

\* the frame, its grayscale version and the thresholded one: two new arrays
preprocess_frame(frame) ==
  <<frame, [frame EXCEPT !.id = "gray"], [frame EXCEPT !.id = "thresh"]>>

\* the entries in the reverse of the insertion order
items_reversed(d) == [i \in DOMAIN d |-> d[Len(d) + 1 - i]]

\* dict.items(): the entries in insertion order
items(d) == d

\* the if/elif chain on blur_method, the same for objects and for text
apply_blur(blur_method, region, cv_fail) ==
  IF blur_method = "gaussian" THEN gaussian_blur(region, cv_fail)
  ELSE IF blur_method = "pixelate" THEN pixelate(region, cv_fail)
  ELSE IF blur_method = "edge_preserving" THEN edge_preserving_blur(region, cv_fail)
  ELSE region

\* the rule that decides whether the boxes of obj_type are skipped
object_rule(blur_rules, obj_type) == dict_get(blur_rules, obj_type, "none")

\* the blur method of the regions of sensitive text
text_rule(blur_rules) == dict_get(blur_rules, "text", "gaussian")

\* the loop over the boxes of one object type, rows and columns exchanged:
\* processed_frame[x1:x2, y1:y2]
RECURSIVE box_loop_exchanged(_, _, _, _)
box_loop_exchanged(boxes, blur_method, processed_frame, cv_fail) ==
  IF boxes = <<>> THEN processed_frame
  ELSE
    LET box == Head(boxes)
        region == slice(processed_frame, box[1], box[3], box[2], box[4])
        blurred == apply_blur(blur_method, region, cv_fail)
    IN  IF size(region) = 0
        THEN box_loop_exchanged(Tail(boxes), blur_method, processed_frame, cv_fail)
        ELSE box_loop_exchanged(Tail(boxes), blur_method,
               slice_assign(processed_frame, box[1], box[3], box[2], box[4], blurred),
               cv_fail)

\* the loop over the boxes of one object type
RECURSIVE box_loop(_, _, _, _)
box_loop(boxes, blur_method, processed_frame, cv_fail) ==
  IF boxes = <<>> THEN processed_frame
  ELSE
    LET box == Head(boxes)
        x1 == box[1]
        y1 == box[2]
        x2 == box[3]
        y2 == box[4]
        region == slice(processed_frame, y1, y2, x1, x2)
        blurred == apply_blur(blur_method, region, cv_fail)
    IN  IF size(region) = 0
        THEN box_loop(Tail(boxes), blur_method, processed_frame, cv_fail)
        ELSE box_loop(Tail(boxes), blur_method,
                      slice_assign(processed_frame, y1, y2, x1, x2, blurred), cv_fail)

\* one iteration of the loop over detected_objects.items(), with the count entered
\* only for the object types that are not skipped
object_step_count_after_skip(entry, blur_rules, acc, cv_fail) ==
  IF object_rule(blur_rules, entry[1]) = "none" THEN acc
  ELSE [frame |-> box_loop(entry[2], dict_get(blur_rules, entry[1], "gaussian"),
                           acc.frame, cv_fail),
        detection_counts |-> od_set(acc.detection_counts, entry[1], Len(entry[2]))]

\* one iteration of the loop over detected_objects.items(); acc is
\* [frame, detection_counts]
object_step(entry, blur_rules, acc, cv_fail) ==
  [frame |-> IF object_rule(blur_rules, entry[1]) = "none" THEN acc.frame
             ELSE box_loop(entry[2], dict_get(blur_rules, entry[1], "gaussian"),
                           acc.frame, cv_fail),
   detection_counts |-> od_set(acc.detection_counts, entry[1], Len(entry[2]))]

RECURSIVE object_loop(_, _, _, _)
object_loop(entries, blur_rules, acc, cv_fail) ==
  IF entries = <<>> THEN acc
  ELSE object_loop(Tail(entries), blur_rules,
                   object_step(Head(entries), blur_rules, acc, cv_fail), cv_fail)

\* the loop over text_regions; acc is [exc, frame, sensitive_text_found]
RECURSIVE text_loop(_, _, _, _, _)
text_loop(text_regions, blur_rules, text_analyzer_, acc, cv_fail) ==
  IF text_regions = <<>> THEN acc
  ELSE
    LET text == Head(text_regions).text
        box == Head(text_regions).box
        x == box[1]
        y == box[2]
        w == box[3]
        h == box[4]
        s == is_sensitive_text(text_analyzer_, text)
        text_region == slice(acc.frame, y, y + h, x, x + w)
        blurred == apply_blur(text_rule(blur_rules), text_region, cv_fail)
        found == [acc EXCEPT !.sensitive_text_found = TRUE]
    IN  IF s.exc # None THEN [acc EXCEPT !.exc = s.exc]
        ELSE IF ~s.value
        THEN text_loop(Tail(text_regions), blur_rules, text_analyzer_, acc, cv_fail)
        ELSE IF size(text_region) = 0
        THEN text_loop(Tail(text_regions), blur_rules, text_analyzer_, found, cv_fail)
        ELSE text_loop(Tail(text_regions), blur_rules, text_analyzer_,
                       [found EXCEPT !.frame =
                          slice_assign(acc.frame, y, y + h, x, x + w, blurred)],
                       cv_fail)

\* 0 if sensitive_text_found else 1
sensitive_text_count_exchanged(sensitive_text_found) ==
  IF sensitive_text_found THEN 0 ELSE 1

\* sensitive_text_found as the entry of detection_counts
sensitive_text_count(sensitive_text_found) == IF sensitive_text_found THEN 1 ELSE 0

\* lines 156-158: the entry of sensitive_text and the returned pair
process_frame_return(d, text_regions, o, t) ==
  [exc |-> t.exc, detect_exc |-> None, frame |-> t.frame,
   detection_counts |->
     IF t.exc # None THEN o.detection_counts
     ELSE od_set(o.detection_counts, "sensitive_text",
                 sensitive_text_count(t.sensitive_text_found)),
   object_detector |-> d.self, detected_objects |-> d.results,
   text_regions |-> text_regions]

\* lines 129-158, o being what the loop over the objects left
process_frame_text(self, text_analyzer_, d, text_regions, o, e) ==
  process_frame_return(d, text_regions, o,
    text_loop(text_regions, self.blur_rules, text_analyzer_,
              [exc |-> None, frame |-> o.frame, sensitive_text_found |-> FALSE],
              e.cv_fail))

\* lines 95-158, d being the outcome of the call of detect
process_frame_objects(self, text_analyzer_, processed_frame, d, text_regions, e) ==
  IF d.exc # None
  THEN [exc |-> d.exc, detect_exc |-> d.exc, frame |-> processed_frame,
        detection_counts |-> <<>>,
        object_detector |-> d.self, detected_objects |-> <<>>, text_regions |-> <<>>]
  ELSE process_frame_text(self, text_analyzer_, d, text_regions,
         object_loop(items(d.results), self.blur_rules,
                     [frame |-> processed_frame, detection_counts |-> <<>>], e.cv_fail),
         e)

\* the call process_frame(frame): [exc, frame, detection_counts] is what the caller
\* gets (the pair when exc is None), object_detector is the detector after the call,
\* detected_objects and text_regions are the two locals
process_frame(self, object_detector_, text_analyzer_, frame, e) ==
  process_frame_objects(self, text_analyzer_, copy(frame),
                        detect(object_detector_, frame, <<self.detection_confidence>>, e),
                        extract_text(text_analyzer_, preprocess_frame(frame)[2], e), e)

(***************************************************************************)
(* The state machine: the objects after construction, the three setters    *)
(* and process_frame on the frames the caller holds.                       *)
(***************************************************************************)
\* detection_confidence values of the configuration surface, in percent
Confidences == {0, 50}

\* every blur switched off
none_rules ==
  [face |-> "none", document |-> "none", credit_card |-> "none",
   license_plate |-> "none", screen |-> "none", text |-> "none"]

\* no entry for document and text, and a value that names no blur method
partial_rules ==
  [face |-> "gaussian", credit_card |-> "none", license_plate |-> "mosaic",
   screen |-> "edge_preserving"]

mixed_rules ==
  [face |-> "none", document |-> "pixelate", credit_card |-> "gaussian",
   license_plate |-> "gaussian", screen |-> "pixelate", text |-> "pixelate"]

RuleSets == {default_blur_rules, none_rules, partial_rules, mixed_rules}

hello_keywords == << Str(<<"h", "e", "l", "l", "o">>) >>

\* what the keyword field of the interface gives when it is left empty
blank_keywords == << Str(<<>>) >>

\* a list with an entry that is not a str
malformed_keywords == << NotStr, Str(<<"v", "i", "s", "a">>) >>

KeywordLists == {default_keywords, hello_keywords, blank_keywords, malformed_keywords}

\* the collaborators a processor is built with, and the environment they run in
Setups ==
  { [model |-> None, face_cascade |-> "cascade", tesseract |-> TRUE, nlp |-> TRUE,
     yolo_raises |-> FALSE, ocr_raises |-> FALSE, cv_fail |-> {}],
    [model |-> "yolo", face_cascade |-> "cascade", tesseract |-> TRUE, nlp |-> TRUE,
     yolo_raises |-> FALSE, ocr_raises |-> FALSE, cv_fail |-> {}],
    [model |-> "yolo", face_cascade |-> "cascade", tesseract |-> TRUE, nlp |-> FALSE,
     yolo_raises |-> TRUE, ocr_raises |-> FALSE, cv_fail |-> {"GaussianBlur"}],
    [model |-> None, face_cascade |-> None, tesseract |-> TRUE, nlp |-> TRUE,
     yolo_raises |-> FALSE, ocr_raises |-> FALSE, cv_fail |-> {}],
    [model |-> "yolo", face_cascade |-> None, tesseract |-> FALSE, nlp |-> TRUE,
     yolo_raises |-> FALSE, ocr_raises |-> FALSE, cv_fail |-> {"edgePreservingFilter"}],
    [model |-> "yolo", face_cascade |-> "cascade", tesseract |-> TRUE, nlp |-> TRUE,
     yolo_raises |-> FALSE, ocr_raises |-> TRUE, cv_fail |-> {}],
    [model |-> None, face_cascade |-> "cascade", tesseract |-> TRUE, nlp |-> FALSE,
     yolo_raises |-> FALSE, ocr_raises |-> FALSE,
     cv_fail |-> {"resize", "edgePreservingFilter", "bilateralFilter"}] }

\* no call of process_frame yet
NoCall ==
  [called |-> FALSE, scene |-> None, exc |-> None, detect_exc |-> None,
   frame |-> RawFrame(None), detection_counts |-> <<>>, detected_objects |-> <<>>,
   text_regions |-> <<>>, processor |-> [detection_confidence |-> 50,
   blur_rules |-> default_blur_rules, sensitive_keywords |-> default_keywords],
   confidence_used |-> 50, keywords_used |-> default_keywords]

(***************************************************************************)
(* DemoVideoGenerator (src/utils/demo_video_generator.py).  self is the    *)
(* record [width, height, frame_count, face_img, face_pos, face_direction, *)
(* face_speed]; a position is <<x, y>>, face_img is the shape <<h, w>> of  *)
(* the image.                                                              *)
(***************************************************************************)
\* the shape of the image _create_face_placeholder draws
create_face_placeholder == <<100, 100>>

\* DemoVideoGenerator() where assets/face.png does not exist
DemoVideoGenerator_init ==
  [width |-> 640, height |-> 480, frame_count |-> 0,
   face_img |-> create_face_placeholder,
   face_pos |-> <<50, 100>>, face_direction |-> <<1, 1>>, face_speed |-> <<2, 1>>]

\* the test of the edges with strict inequalities
bounce_strict(pos, direction, limit) ==
  IF pos < 0 \/ pos > limit THEN -direction ELSE direction

\* the direction of one axis after the test of the edges: pos is the new position,
\* limit is the width or height of the frame less that of the image
bounce(pos, direction, limit) ==
  IF pos <= 0 \/ pos >= limit THEN -direction ELSE direction

\* _place_object(frame, obj, pos): the rectangle <<x, y, w, h>> of the frame that is
\* written, <<>> when the object is outside the frame
place_object(frame_shape, obj_shape, pos) ==
  LET x == pos[1]
      y == pos[2]
      x_end == IF x + obj_shape[2] <= frame_shape[2] THEN x + obj_shape[2] ELSE frame_shape[2]
      y_end == IF y + obj_shape[1] <= frame_shape[1] THEN y + obj_shape[1] ELSE frame_shape[1]
      w == x_end - x
      h == y_end - y
  IN  IF w <= 0 \/ h <= 0 \/ x >= frame_shape[2] \/ y >= frame_shape[1] THEN <<>>
      ELSE <<x, y, w, h>>

\* get_frame: the generator after the call, and the rectangle the face is drawn in
get_frame(self) ==
  LET pos == <<self.face_pos[1] + self.face_speed[1] * self.face_direction[1],
               self.face_pos[2] + self.face_speed[2] * self.face_direction[2]>>
      dx == bounce(pos[1], self.face_direction[1], self.width - self.face_img[2])
      dy == bounce(pos[2], self.face_direction[2], self.height - self.face_img[1])
  IN  [self |-> [self EXCEPT !.face_pos = pos, !.face_direction = <<dx, dy>>,
                             !.frame_count = @ + 1],
       face |-> place_object(<<self.height, self.width>>, self.face_img, pos)]

(***************************************************************************)
(* DatabaseManager (src/utils/database.py).  d is the database: the rows   *)
(* of its tables in the order they were inserted; the ids of the detection *)
(* sessions are 1, 2, ...  A method returns [exc, db, ...].                *)
(***************************************************************************)
\* the tables after init_db()
Database_init ==
  [blur_rules |-> <<>>, sensitive_keyword_lists |-> <<>>, users |-> <<>>,
   detection_sessions |-> <<>>, detections |-> <<>>]

\* session.query(Table).filter_by(name=name).first() is not None
has_name(table, name) == \E i \in DOMAIN table : table[i].name = name

\* session.add(row) for every pending row, then session.commit(): name is unique, and
\* the transaction inserts all the rows or none
commit(table, pending) ==
  IF \/ \E i \in DOMAIN pending : has_name(table, pending[i].name)
     \/ \E i, j \in DOMAIN pending : i # j /\ pending[i].name = pending[j].name
  THEN [exc |-> "IntegrityError", table |-> table]
  ELSE [exc |-> None, table |-> table \o pending]

\* the three presets create_default_blur_rules adds
default_blur_rule_rows ==
  << [name |-> "Default Privacy", is_default |-> TRUE,
      rules |-> [face |-> "pixelate", document |-> "gaussian", credit_card |-> "pixelate",
                 license_plate |-> "pixelate", screen |-> "edge_preserving",
                 text |-> "gaussian"]],
     [name |-> "High Privacy", is_default |-> FALSE,
      rules |-> [face |-> "pixelate", document |-> "pixelate", credit_card |-> "pixelate",
                 license_plate |-> "pixelate", screen |-> "pixelate", text |-> "pixelate"]],
     [name |-> "Professional Call", is_default |-> FALSE,
      rules |-> [face |-> "none", document |-> "gaussian", credit_card |-> "pixelate",
                 license_plate |-> "pixelate", screen |-> "edge_preserving",
                 text |-> "gaussian"]] >>

\* create_default_blur_rules without the test for the preset Default Privacy
create_default_blur_rules_unchecked(d) ==
  LET c == commit(d.blur_rules, default_blur_rule_rows)
  IN  [exc |-> c.exc, db |-> [d EXCEPT !.blur_rules = c.table]]

create_default_blur_rules(d) ==
  IF has_name(d.blur_rules, "Default Privacy") THEN [exc |-> None, db |-> d]
  ELSE LET c == commit(d.blur_rules, default_blur_rule_rows)
       IN  [exc |-> c.exc, db |-> [d EXCEPT !.blur_rules = c.table]]

\* the three lists create_default_keyword_lists adds
default_keyword_list_rows ==
  << [name |-> "Standard Keywords", is_default |-> TRUE,
      keywords |-> <<"confidential", "private", "secret", "password", "visa",
                     "mastercard", "american express", "cvv", "ssn", "social security",
                     "classified">>],
     [name |-> "Financial Keywords", is_default |-> FALSE,
      keywords |-> <<"account number", "routing number", "pin", "balance", "statement",
                     "credit score", "loan", "mortgage", "investment", "tax id", "ein",
                     "w2", "w-2", "1099", "bank account">>],
     [name |-> "Healthcare Keywords", is_default |-> FALSE,
      keywords |-> <<"patient", "diagnosis", "medical record", "prescription",
                     "treatment", "symptoms", "health insurance", "hipaa", "doctor",
                     "hospital", "medical id", "medication">>] >>

create_default_keyword_lists(d) ==
  IF has_name(d.sensitive_keyword_lists, "Standard Keywords") THEN [exc |-> None, db |-> d]
  ELSE LET c == commit(d.sensitive_keyword_lists, default_keyword_list_rows)
       IN  [exc |-> c.exc, db |-> [d EXCEPT !.sensitive_keyword_lists = c.table]]

\* start_detection_session(): the anonymous user is created when missing; id is the
\* id of the new detection session
start_detection_session(d) ==
  LET users == IF \E i \in DOMAIN d.users : d.users[i].username = "anonymous"
               THEN d.users ELSE Append(d.users, [username |-> "anonymous"])
      id == Len(d.detection_sessions) + 1
  IN  [exc |-> None, id |-> id,
       db |-> [d EXCEPT !.users = users,
                        !.detection_sessions = Append(@, [id |-> id, ended |-> FALSE])]]

log_detection(d, session_id, object_type, blur_method) ==
  [d EXCEPT !.detections =
     Append(@, [session_id |-> session_id, object_type |-> object_type,
                blur_method |-> blur_method])]

end_detection_session(d, session_id) ==
  [d EXCEPT !.detection_sessions =
     [i \in DOMAIN @ |-> IF @[i].id = session_id THEN [@[i] EXCEPT !.ended = TRUE]
                         ELSE @[i]]]

\* get_detection_stats(session_id): the dict of the numbers of detections by object
\* type, as the sequence of its items
RECURSIVE stats_loop(_, _, _)
stats_loop(detections, session_id, stats) ==
  IF detections = <<>> THEN stats
  ELSE LET obj_type == Head(detections).object_type
           n == IF od_has(stats, obj_type) THEN od_get(stats, obj_type) ELSE 0
       IN  IF Head(detections).session_id = session_id
           THEN stats_loop(Tail(detections), session_id, od_set(stats, obj_type, n + 1))
           ELSE stats_loop(Tail(detections), session_id, stats)

get_detection_stats(d, session_id) == stats_loop(d.detections, session_id, <<>>)

(***************************************************************************)
(* The script of the application (src/app.py): the video processing loop.  *)
(* state is the record [pc, is_webcam_active, detection_session_id,        *)
(* frame_count, scene, detections, exit_at, exc, stats]: pc is the         *)
(* position of the run, detection_session_id is <<>> for None, exit_at is  *)
(* the statement the loop was left at.                                     *)
(***************************************************************************)
App_init ==
  [pc |-> "idle", is_webcam_active |-> FALSE, detection_session_id |-> <<>>,
   frame_count |-> 0, scene |-> None, detections |-> <<>>, exit_at |-> None,
   exc |-> None, stats |-> <<>>]

\* len(v) for a value of the dict process_frame returns: the values of
\* detection_counts are ints (video_processor.py lines 100 and 156), and len() of an
\* int raises TypeError
len_of_count(v) == [exc |-> "TypeError", value |-> 0]

\* for _ in range(n): log_detection(session_id, obj_type, blur_method)
RECURSIVE log_each(_, _, _, _, _)
log_each(n, d, session_id, obj_type, blur_method) ==
  IF n <= 0 THEN d
  ELSE log_each(n - 1, log_detection(d, session_id, obj_type, blur_method),
                session_id, obj_type, blur_method)

\* the loop of lines 432-443 over detections.items(); an exception ends it
RECURSIVE log_loop(_, _, _, _)
log_loop(entries, session_id, blur_rules, d) ==
  IF entries = <<>> THEN [exc |-> None, db |-> d]
  ELSE LET obj_type == Head(entries)[1]
           obj_boxes == Head(entries)[2]
           n == len_of_count(obj_boxes)
           blur_method == dict_get(blur_rules, obj_type, "none")
       IN  IF n.exc # None THEN [exc |-> n.exc, db |-> d]
           ELSE IF n.value > 0
           THEN log_loop(Tail(entries), session_id, blur_rules,
                         log_each(n.value, d, session_id, obj_type, blur_method))
           ELSE log_loop(Tail(entries), session_id, blur_rules, d)

\* lines 429-446: every 10 frames, with a detection session, the detections are
\* logged; the except clause drops every exception
log_detections(state, detections, blur_rules, d) ==
  IF state.frame_count % 10 = 0 /\ state.detection_session_id # <<>>
  THEN log_loop(detections, state.detection_session_id[1], blur_rules, d).db
  ELSE d

\* lines 462-465: total_detected += len(obj_list) for every value of detections
RECURSIVE count_loop(_, _)
count_loop(values, total_detected) ==
  IF values = <<>> THEN [exc |-> None, value |-> total_detected]
  ELSE LET n == len_of_count(Head(values))
       IN  IF n.exc # None THEN n
           ELSE count_loop(Tail(values), total_detected + n.value)

Init ==
  \E s \in Setups :
    /\ processor = [detection_confidence |-> 50, blur_rules |-> default_blur_rules,
                    sensitive_keywords |-> default_keywords]
    /\ object_detector = [model |-> s.model, face_cascade |-> s.face_cascade,
                          confidence |-> 50]
    /\ text_analyzer = [tesseract_available |-> s.tesseract, nlp_available |-> s.nlp,
                        sensitive_keywords |-> default_keywords]
    /\ env = [yolo_raises |-> s.yolo_raises, ocr_raises |-> s.ocr_raises,
              cv_fail |-> s.cv_fail]
    /\ buffers = [b \in AllScenes |-> RawFrame(b)]
    /\ last = NoCall
    /\ ref = [call |-> NoCall, between |-> FALSE]
    /\ unit = [op |-> None]
    /\ app = App_init
    /\ db = Database_init
    /\ demo = DemoVideoGenerator_init

set_detection_confidence(confidence) ==
  /\ processor' = [processor EXCEPT !.detection_confidence = confidence]
  /\ object_detector' = [object_detector EXCEPT !.confidence = confidence]
  /\ UNCHANGED <<text_analyzer, env, buffers, last, ref, unit, app, db, demo>>

set_blur_rules(rules) ==
  /\ processor' = [processor EXCEPT !.blur_rules = rules]
  /\ UNCHANGED <<object_detector, text_analyzer, env, buffers, last, ref, unit, app, db, demo>>

\* set_sensitive_keywords without the call of the analyzer's setter
set_sensitive_keywords_not_forwarded(keywords) ==
  /\ processor' = [processor EXCEPT !.sensitive_keywords = keywords]
  /\ UNCHANGED <<object_detector, text_analyzer, env, buffers, last, ref, unit, app, db, demo>>

set_sensitive_keywords(keywords) ==
  /\ processor' = [processor EXCEPT !.sensitive_keywords = keywords]
  /\ text_analyzer' = [text_analyzer EXCEPT !.sensitive_keywords = keywords]
  /\ UNCHANGED <<object_detector, env, buffers, last, ref, unit, app, db, demo>>

\* the caller passes the frame it holds for a scene; an array process_frame wrote
\* to under the identity of the caller's frame is the caller's frame
\* (ref is the observer's: it notes a call that differs from the one it keeps)
ProcessFrame(scene) ==
  \E r \in {process_frame(processor, object_detector, text_analyzer, buffers[scene], env)} :
      /\ object_detector' = r.object_detector
      /\ buffers' = [buffers EXCEPT
                       ![scene] = IF r.frame.id = @.id THEN r.frame ELSE @]
      /\ last' = [called |-> TRUE, scene |-> scene, exc |-> r.exc,
                  detect_exc |-> r.detect_exc, frame |-> r.frame,
                  detection_counts |-> r.detection_counts,
                  detected_objects |-> r.detected_objects,
                  text_regions |-> r.text_regions, processor |-> processor,
                  confidence_used |-> r.object_detector.confidence,
                  keywords_used |-> text_analyzer.sensitive_keywords]
      /\ ref' = IF ref.call.called
                   /\ (ref.call.scene # scene \/ ref.call.processor # processor)
                THEN [ref EXCEPT !.between = TRUE] ELSE ref
      /\ UNCHANGED <<processor, text_analyzer, env, unit, app, db, demo>>

\* the observer keeps the last call, to compare a later call with it, and notes
\* whether a call on another frame or under another configuration came between
Remember ==
  /\ last.called
  /\ ref' = [call |-> last, between |-> FALSE]
  /\ UNCHANGED <<processor, object_detector, text_analyzer, env, buffers, last, unit, app, db, demo>>

Next ==
  \/ \E confidence \in Confidences : set_detection_confidence(confidence)
  \/ \E rules \in RuleSets : set_blur_rules(rules)
  \/ \E keywords \in KeywordLists : set_sensitive_keywords(keywords)
  \/ \E scene \in Scenes : ProcessFrame(scene)

Spec == Init /\ [][Next]_vars

\* the same, with the frames of the scene whose boxes leave the frame
NextAnyBoxes ==
  \/ Next
  \/ ProcessFrame("street")

SpecAnyBoxes == Init /\ [][NextAnyBoxes]_vars

\* the same on fewer settings, with the observer
HistoryRuleSets == {default_blur_rules, mixed_rules}

HistoryKeywordLists == {default_keywords, hello_keywords}

NextHistory ==
  \/ \E confidence \in Confidences : set_detection_confidence(confidence)
  \/ \E rules \in HistoryRuleSets : set_blur_rules(rules)
  \/ \E keywords \in HistoryKeywordLists : set_sensitive_keywords(keywords)
  \/ \E scene \in Scenes : ProcessFrame(scene)
  \/ Remember

SpecHistory == Init /\ [][NextHistory]_vars

(***************************************************************************)
(* Direct calls of the methods of the collaborators, on arguments of the   *)
(* caller's choice; unit keeps the call and what it returned.              *)
(***************************************************************************)
\* keywords as a caller of set_sensitive_keywords may write them
mixed_case_keywords == << Str(<<"V", "i", "s", "a">>), Str(<<"a", "b">>) >>

UnitKeywordLists == KeywordLists \cup {mixed_case_keywords}

UnitTexts ==
  { <<"M", "y", " ", "P", "A", "S", "S", "W", "O", "R", "D", " ", "i", "s", " ", "x">>,
    <<"h", "e", "l", "l", "o">>,
    <<"V", "i", "s", "a">>,
    <<"m", "e", "m", "o">>,
    <<"1", "/", "2", "/", "9", "9">>,
    <<"c", "v", "v">>,
    <<"a", "b">>,
    <<"s", "s">>,
    <<"x">>,
    <<>> }

\* self.text_analyzer.is_sensitive_text(text)
IsSensitiveText(text) ==
  /\ unit' = [op |-> "is_sensitive_text", text |-> text,
              keywords |-> text_analyzer.sensitive_keywords,
              result |-> is_sensitive_text(text_analyzer, text)]
  /\ UNCHANGED <<processor, object_detector, text_analyzer, env, buffers, last, ref, app, db, demo>>

\* the states the setters of BlurTechniques lead to (set_gaussian_kernel_size,
\* set_pixelate_block_size, set_edge_preserving_diameter take any value)
BlurTechniquesStates ==
  { BlurTechniques_init,
    [gaussian_kernel_size |-> <<4, 4>>, pixelate_block_size |-> 0,
     edge_preserving_diameter |-> 9] }

\* the images the methods of BlurTechniques are called with: None, two arrays of
\* size 0, a region of a frame
UnitImages ==
  { NoneImage,
    slice(RawFrame("desk"), 40, 40, 20, 60),
    slice(RawFrame("desk"), 0, 40, 60, 60),
    slice(RawFrame("desk"), 0, 40, 20, 60) }

KernelSizes == { <<>>, << <<21, 21>> >>, << <<4, 4>> >>, << <<0, 0>> >> }

BlockSizes == { <<>>, <<15>>, <<0>> }

Diameters == { <<>>, <<9>> }

GaussianBlur(self, image, kernel_size) ==
  /\ unit' = [op |-> "gaussian_blur", self |-> self, image |-> image,
              parameter |-> kernel_size,
              result |-> BlurTechniques_gaussian_blur(self, image, kernel_size, env.cv_fail)]
  /\ UNCHANGED <<processor, object_detector, text_analyzer, env, buffers, last, ref, app, db, demo>>

Pixelate(self, image, block_size) ==
  /\ unit' = [op |-> "pixelate", self |-> self, image |-> image,
              parameter |-> block_size,
              result |-> BlurTechniques_pixelate(self, image, block_size, env.cv_fail)]
  /\ UNCHANGED <<processor, object_detector, text_analyzer, env, buffers, last, ref, app, db, demo>>

EdgePreservingBlur(self, image, diameter) ==
  /\ unit' = [op |-> "edge_preserving_blur", self |-> self, image |-> image,
              parameter |-> diameter,
              result |-> BlurTechniques_edge_preserving_blur(self, image, diameter,
                                                             env.cv_fail)]
  /\ UNCHANGED <<processor, object_detector, text_analyzer, env, buffers, last, ref, app, db, demo>>

\* the contours _detect_documents_and_cards meets, as <<vertices, x, y, w, h>>: widths
\* and heights on both sides of 50 and of 100, aspect ratios on both sides of 0.7,
\* 1.4, 1.7 and 2.5
ContourWidths ==
  {49, 50, 69, 70, 71, 85, 86, 100, 101, 125, 126, 139, 140, 141, 142, 170, 171,
   250, 251, 252, 253}

ContourHeights == {49, 50, 100, 101, 200}

UnitContours ==
  {<<n, 0, 0, w, h>> : n \in {4, 5}, w \in ContourWidths, h \in ContourHeights}

DetectDocumentsAndCards(contour) ==
  /\ unit' = [op |-> "detect_documents_and_cards", contour |-> contour,
              result |-> detect_documents_and_cards(<<contour>>, initial_results)]
  /\ UNCHANGED <<processor, object_detector, text_analyzer, env, buffers, last, ref, app, db, demo>>

ExtractText(scene) ==
  /\ unit' = [op |-> "extract_text", scene |-> scene,
              result |-> extract_text(text_analyzer, buffers[scene], env)]
  /\ UNCHANGED <<processor, object_detector, text_analyzer, env, buffers, last, ref, app, db, demo>>

NextUnits ==
  \/ \E keywords \in UnitKeywordLists : set_sensitive_keywords(keywords)
  \/ \E text \in UnitTexts : IsSensitiveText(text)
  \/ \E scene \in AllScenes : ExtractText(scene)
  \/ \E self \in BlurTechniquesStates, image \in UnitImages :
       \/ \E kernel_size \in KernelSizes : GaussianBlur(self, image, kernel_size)
       \/ \E block_size \in BlockSizes : Pixelate(self, image, block_size)
       \/ \E diameter \in Diameters : EdgePreservingBlur(self, image, diameter)

SpecUnits == Init /\ [][NextUnits]_vars

\* _detect_documents_and_cards on one contour after another
NextContours == \E contour \in UnitContours : DetectDocumentsAndCards(contour)

SpecContours == Init /\ [][NextContours]_vars

\* the largest number of frames the demo generator is asked for
MaxDemoFrames == 700

GetFrame ==
  /\ demo.frame_count < MaxDemoFrames
  /\ \E r \in {get_frame(demo)} :
       /\ demo' = r.self
       /\ unit' = [op |-> "get_frame", before |-> demo, face |-> r.face]
  /\ UNCHANGED <<processor, object_detector, text_analyzer, env, buffers, last, ref, app, db>>

\* one frame of the demo video after another
NextDemo == GetFrame

SpecDemo == Init /\ [][NextDemo]_vars

\* the largest number of frames the loop of the application reads
MaxFrames == 12

\* the largest number of detection sessions started
MaxSessions == 2

\* a run of the script with the webcam switched on, up to the loop (lines 364-409):
\* the camera may fail to open, the database may fail to start a detection session
AppStart(opened, db_ok) ==
  /\ app.pc \in {"idle", "done"}
  /\ Len(db.detection_sessions) < MaxSessions
  /\ IF ~opened
     THEN /\ app' = [app EXCEPT !.is_webcam_active = FALSE, !.pc = "idle"]
          /\ db' = db
     ELSE \E s \in {start_detection_session(db)} :
            LET start == app.detection_session_id = <<>> /\ db_ok
            IN  /\ app' = [app EXCEPT !.is_webcam_active = TRUE, !.pc = "while",
                                      !.detection_session_id = IF start THEN <<s.id>> ELSE @,
                                      !.frame_count = 0, !.exit_at = None, !.exc = None]
                /\ db' = IF start THEN s.db ELSE db
  /\ UNCHANGED <<processor, object_detector, text_analyzer, env, buffers, last, ref, unit, demo>>

\* the webcam is switched off while the loop runs
AppDeactivate ==
  /\ app.pc \in {"while", "process", "display"}
  /\ app.is_webcam_active
  /\ app' = [app EXCEPT !.is_webcam_active = FALSE]
  /\ UNCHANGED <<processor, object_detector, text_analyzer, env, buffers, last, ref, unit, db, demo>>

\* lines 412-418: the test of the loop and cap.read()
AppRead(ret, scene) ==
  /\ app.pc = "while"
  /\ IF ~app.is_webcam_active
     THEN app' = [app EXCEPT !.pc = "finally", !.exit_at = "while"]
     ELSE IF ~ret
     THEN app' = [app EXCEPT !.pc = "finally", !.exit_at = "read"]
     ELSE /\ app.frame_count < MaxFrames
          /\ app' = [app EXCEPT !.pc = "process", !.scene = scene]
  /\ UNCHANGED <<processor, object_detector, text_analyzer, env, buffers, last, ref, unit, db, demo>>

\* lines 420-446: process_frame on the frame read, then the log of the detections
AppProcess ==
  /\ app.pc = "process"
  /\ \E r \in {process_frame(processor, object_detector, text_analyzer,
                             RawFrame(app.scene), env)} :
       /\ object_detector' = r.object_detector
       /\ IF r.exc # None
          THEN /\ app' = [app EXCEPT !.pc = "finally", !.exit_at = "process", !.exc = r.exc]
               /\ db' = db
          ELSE LET counted == [app EXCEPT !.frame_count = @ + 1,
                                          !.detections = r.detection_counts]
               IN  /\ app' = [counted EXCEPT !.pc = "display"]
                   /\ db' = log_detections(counted, r.detection_counts,
                                           processor.blur_rules, db)
  /\ UNCHANGED <<processor, text_analyzer, env, buffers, last, ref, unit, demo>>

\* lines 448-488: the display of the frame and of the detection summary
AppDisplay ==
  /\ app.pc = "display"
  /\ LET total == count_loop([i \in DOMAIN app.detections |-> app.detections[i][2]], 0)
     IN  app' = IF total.exc # None
                THEN [app EXCEPT !.pc = "finally", !.exit_at = "display", !.exc = total.exc]
                ELSE [app EXCEPT !.pc = "while"]
  /\ UNCHANGED <<processor, object_detector, text_analyzer, env, buffers, last, ref, unit, db, demo>>

\* lines 493-511: the detection session is ended and its statistics are read
AppFinally ==
  /\ app.pc = "finally"
  /\ IF app.detection_session_id # <<>>
     THEN /\ db' = end_detection_session(db, app.detection_session_id[1])
          /\ app' = [app EXCEPT !.pc = "done", !.detection_session_id = <<>>,
                                !.stats = get_detection_stats(db, app.detection_session_id[1])]
     ELSE /\ db' = db
          /\ app' = [app EXCEPT !.pc = "done"]
  /\ UNCHANGED <<processor, object_detector, text_analyzer, env, buffers, last, ref, unit, demo>>

\* the largest number of calls in a row of a method that seeds the database
MaxSeedCalls == 3

\* how many calls of the method op there were in a row, this one included
TimesInARow(op) == IF unit.op = op THEN unit.times + 1 ELSE 1

CreateDefaultBlurRules ==
  /\ TimesInARow("create_default_blur_rules") <= MaxSeedCalls
  /\ \E r \in {create_default_blur_rules(db)} :
       /\ db' = r.db
       /\ unit' = [op |-> "create_default_blur_rules", exc |-> r.exc,
                   times |-> TimesInARow("create_default_blur_rules")]
  /\ UNCHANGED <<processor, object_detector, text_analyzer, env, buffers, last, ref, app, demo>>

CreateDefaultKeywordLists ==
  /\ TimesInARow("create_default_keyword_lists") <= MaxSeedCalls
  /\ \E r \in {create_default_keyword_lists(db)} :
       /\ db' = r.db
       /\ unit' = [op |-> "create_default_keyword_lists", exc |-> r.exc,
                   times |-> TimesInARow("create_default_keyword_lists")]
  /\ UNCHANGED <<processor, object_detector, text_analyzer, env, buffers, last, ref, app, demo>>

\* the steps of a run of the script apart from the call of process_frame
AppLoopStep ==
  \/ \E ret \in BOOLEAN, scene \in Scenes : AppRead(ret, scene)
  \/ AppDisplay
  \/ AppFinally

\* the steps of a run of the script
AppStep ==
  \/ AppLoopStep
  \/ AppProcess

\* the application and the script that seeds the database
NextApp ==
  \/ \E opened \in BOOLEAN, db_ok \in BOOLEAN : AppStart(opened, db_ok)
  \/ AppDeactivate
  \/ AppStep
  \/ CreateDefaultBlurRules
  \/ CreateDefaultKeywordLists

SpecApp == Init /\ [][NextApp]_vars

\* a run of the script goes on as long as it has a step to take, and a call of
\* process_frame returns
SpecAppFair == SpecApp /\ WF_vars(AppLoopStep) /\ []<>(app.pc # "process")

\* the largest height and width of a region given to pixelate, and the largest block
\* size
MaxSide == 7

MaxBlock == 4

PixelateCells(height, width, block_size) ==
  /\ unit' = [op |-> "pixelate_cells", height |-> height, width |-> width,
              block_size |-> block_size,
              result |-> pixelate_cells(height, width, block_size, env.cv_fail)]
  /\ UNCHANGED <<processor, object_detector, text_analyzer, env, buffers, last, ref, app, db, demo>>

\* pixelate on one region after another
NextPixelate ==
  \E height \in 1..MaxSide, width \in 1..MaxSide, block_size \in 1..MaxBlock :
    PixelateCells(height, width, block_size)

SpecPixelate == Init /\ [][NextPixelate]_vars

(***************************************************************************)
(* What the claims speak of.                                               *)
(***************************************************************************)
\* the last call of process_frame returned its pair
Returned == last.called /\ last.exc = None

\* the observed pixels of a frame
Pixels == Lattice(0, 0, FrameW, FrameH)

\* the pixel p before the last call and in the frame the call returned
InputPixel(p) == buffers[last.scene].px[p]

OutputPixel(p) == last.frame.px[p]

\* the pixel p lies in the box <<x1, y1, x2, y2>>
InBox(p, box) == box[1] <= p[1] /\ p[1] < box[3] /\ box[2] <= p[2] /\ p[2] < box[4]

Covered(p, boxes) == \E box \in boxes : InBox(p, box)

CategorySet == {"face", "document", "credit_card", "license_plate", "screen"}

RealTransforms == {"gaussian", "pixelate", "edge_preserving"}

\* the blur rules at the last call, and the entry of a key ("None" when it has none)
RulesAtCall == last.processor.blur_rules

RuleAtCall(key) == dict_get(RulesAtCall, key, None)

\* the regions the detector gave for a category at the last call
BoxSeq(category) ==
  IF od_has(last.detected_objects, category)
  THEN od_get(last.detected_objects, category) ELSE <<>>

Boxes(category) == {BoxSeq(category)[i] : i \in DOMAIN BoxSeq(category)}

\* the verdict of the classifier on a text with the keywords of the last call
Sensitive(text) ==
  is_sensitive_text([text_analyzer EXCEPT
                       !.sensitive_keywords = last.processor.sensitive_keywords],
                    text).value

\* the region <<x1, y1, x2, y2>> of a text fragment
TextBox(fragment) ==
  <<fragment.box[1], fragment.box[2],
    fragment.box[1] + fragment.box[3], fragment.box[2] + fragment.box[4]>>

SensitiveTextBoxes ==
  {TextBox(last.text_regions[i]) :
     i \in {j \in DOMAIN last.text_regions : Sensitive(last.text_regions[j].text)}}

\* the regions of a key of the blur rules: a category, or "text"
KeyBoxes(key) == IF key = "text" THEN SensitiveTextBoxes ELSE Boxes(key)

\* the regions of the object categories, other than `category`, that are blurred
OtherBlurredBoxes(category) ==
  UNION {Boxes(c) : c \in {k \in CategorySet \ {category} : RuleAtCall(k) \in RealTransforms}}

BoxInside(box) ==
  /\ 0 <= box[1] /\ box[1] <= box[3] /\ box[3] <= FrameW
  /\ 0 <= box[2] /\ box[2] <= box[4] /\ box[4] <= FrameH

AllBoxesInside ==
  /\ \A c \in CategorySet : \A box \in Boxes(c) : BoxInside(box)
  /\ \A i \in DOMAIN last.text_regions : BoxInside(TextBox(last.text_regions[i]))

(***************************************************************************)
(* The claims.                                                             *)
(***************************************************************************)
\* C1: no exception escapes process_frame: every call returns its pair, whatever the
\* state of the collaborators, the blur rules and the keyword list.
C1_NoExceptionEscapes == last.called => last.exc = None

\* C2: process_frame never modifies the frame of the caller: no step changes a pixel
\* of a frame the caller holds, and the frame a call returns is another object than
\* the frame it was given.
C2_InputFrameUntouched ==
  [][/\ buffers' = buffers
     /\ (last'.called /\ last'.exc = None) => last'.frame.id # buffers'[last'.scene].id]_vars

C2_Witness ==
  /\ Returned
  /\ \E p \in Pixels : OutputPixel(p) # InputPixel(p)

\* C3: for a key (a category, or "text") that has no entry in the blur rules, or an
\* entry that names none of the three transforms, the call leaves the pixels of the
\* regions of that key as they were (where no region of a key that is blurred
\* covers them).
C3_NoRuleNoTransform ==
  Returned =>
    \A key \in CategorySet \cup {"text"} :
      RuleAtCall(key) \notin RealTransforms =>
        \A p \in Pixels :
          ( /\ Covered(p, KeyBoxes(key))
            /\ \A k \in (CategorySet \cup {"text"}) \ {key} :
                 RuleAtCall(k) \in RealTransforms => ~Covered(p, KeyBoxes(k)) )
          => OutputPixel(p) = InputPixel(p)

\* C4: when the rule of a category is "none", detection_counts still reports the
\* number of its regions, and every pixel of its regions that no region of another
\* blurred category and no sensitive text covers is as in the input.
C4_NoneLeavesRegions ==
  Returned =>
    \A c \in CategorySet :
      (od_has(last.detected_objects, c) /\ RuleAtCall(c) = "none") =>
        /\ od_has(last.detection_counts, c)
        /\ od_get(last.detection_counts, c) = Len(BoxSeq(c))
        /\ \A p \in Pixels :
             ( /\ Covered(p, Boxes(c))
               /\ ~Covered(p, OtherBlurredBoxes(c))
               /\ ~Covered(p, SensitiveTextBoxes) )
             => OutputPixel(p) = InputPixel(p)

C4_Witness ==
  /\ Returned
  /\ RuleAtCall("face") = "none"
  /\ Len(BoxSeq("face")) = 2
  /\ \E p \in Pixels : Covered(p, Boxes("face")) /\ OutputPixel(p) = InputPixel(p)
  /\ \E p \in Pixels : OutputPixel(p) # InputPixel(p)

\* C5: with every detected box inside the frame, the output differs from the input
\* only inside the regions of the object categories whose rule is a transform and
\* the regions of the text fragments classified sensitive.
C5_ChangesOnlyInRegions ==
  (Returned /\ AllBoxesInside) =>
    \A p \in Pixels :
      OutputPixel(p) # InputPixel(p) =>
        \/ \E c \in CategorySet : RuleAtCall(c) \in RealTransforms /\ Covered(p, Boxes(c))
        \/ Covered(p, SensitiveTextBoxes)

C5_Witness ==
  /\ Returned
  /\ AllBoxesInside
  /\ \E p \in Pixels : OutputPixel(p) # InputPixel(p)
  /\ \E p \in Pixels : OutputPixel(p) = InputPixel(p) /\ Covered(p, Boxes("credit_card"))

\* the filter OpenCV runs for a blur method in this environment ("None": the region
\* is written back as it was read)
FilterOf(blur_method) ==
  IF blur_method = "gaussian" /\ "GaussianBlur" \notin env.cv_fail THEN "gaussian"
  ELSE IF blur_method = "pixelate" /\ "resize" \notin env.cv_fail THEN "pixelate"
  ELSE IF blur_method = "edge_preserving" /\ "edgePreservingFilter" \notin env.cv_fail
  THEN "edge_preserving"
  ELSE IF blur_method = "edge_preserving" /\ "bilateralFilter" \notin env.cv_fail
  THEN "bilateral"
  ELSE None

\* the blur method the call used for the regions of a category ("none": skipped)
MethodAtCall(category) ==
  IF object_rule(RulesAtCall, category) = "none" THEN "none"
  ELSE dict_get(RulesAtCall, category, "gaussian")

\* the regions of the categories Categories[i..], category by category, each with
\* its regions in the order the detector emitted them
RECURSIVE ObjectWrites(_)
ObjectWrites(i) ==
  IF i > Len(Categories) THEN <<>>
  ELSE [j \in DOMAIN BoxSeq(Categories[i]) |->
          [filter |-> FilterOf(MethodAtCall(Categories[i])),
           box |-> BoxSeq(Categories[i])[j]]]
       \o ObjectWrites(i + 1)

\* the regions of the text fragments from the i-th on that are sensitive
RECURSIVE TextWrites(_)
TextWrites(i) ==
  IF i > Len(last.text_regions) THEN <<>>
  ELSE (IF Sensitive(last.text_regions[i].text)
        THEN << [filter |-> FilterOf(text_rule(RulesAtCall)),
                 box |-> TextBox(last.text_regions[i])] >>
        ELSE <<>>)
       \o TextWrites(i + 1)

\* the order of the claim: the objects by category, then the text
WritesInOrder == ObjectWrites(1) \o TextWrites(1)

\* what the writes of a sequence leave on the pixel p, one after the other
RECURSIVE HistoryOf(_, _)
HistoryOf(writes, p) ==
  IF writes = <<>> THEN <<>>
  ELSE LET wr == Head(writes)
           b == wr.box
       IN  (IF wr.filter # None /\ InBox(p, b)
            THEN << <<wr.filter, b[1], b[2], b[3] - b[1], b[4] - b[2]>> >>
            ELSE <<>>)
           \o HistoryOf(Tail(writes), p)

\* C6: the regions are transformed and written back in the order face, document,
\* credit_card, license_plate, screen (the regions of a category in the order of
\* emission), then the sensitive text fragments: every pixel carries the writes of
\* the regions that cover it in that order, the last of them on top.
C6_FixedOrderLaterWins ==
  (Returned /\ AllBoxesInside) =>
    \A p \in Pixels : OutputPixel(p) = InputPixel(p) \o HistoryOf(WritesInOrder, p)

C6_Witness ==
  /\ Returned
  /\ AllBoxesInside
  /\ \E p \in Pixels :
       /\ Len(OutputPixel(p)) >= 3
       /\ Covered(p, SensitiveTextBoxes)
       /\ \E c1 \in CategorySet : \E c2 \in CategorySet \ {c1} :
            /\ MethodAtCall(c1) # "none" /\ Covered(p, Boxes(c1))
            /\ MethodAtCall(c2) # "none" /\ Covered(p, Boxes(c2))

\* C7: detection_counts has one entry per category the detector returned, equal to
\* the number of its regions, and the entry sensitive_text, 1 when a text fragment
\* of the frame is classified sensitive and 0 when none is; it has no other entry.
C7_DetectionCounts ==
  Returned =>
    /\ Len(last.detection_counts) = Len(last.detected_objects) + 1
    /\ \A i \in DOMAIN last.detected_objects :
         /\ od_has(last.detection_counts, last.detected_objects[i][1])
         /\ od_get(last.detection_counts, last.detected_objects[i][1])
              = Len(last.detected_objects[i][2])
    /\ od_has(last.detection_counts, "sensitive_text")
    /\ od_get(last.detection_counts, "sensitive_text")
         = IF \E i \in DOMAIN last.text_regions : Sensitive(last.text_regions[i].text)
           THEN 1 ELSE 0

C7_Witness ==
  /\ Returned
  /\ RulesAtCall = none_rules
  /\ od_get(last.detection_counts, "sensitive_text") = 1
  /\ od_get(last.detection_counts, "face") = 2
  /\ od_get(last.detection_counts, "screen") = 0

C7_WitnessNoSensitiveText ==
  /\ Returned
  /\ last.text_regions # <<>>
  /\ od_get(last.detection_counts, "sensitive_text") = 0

\* C8: configuration is not cached across frames: every call of process_frame runs
\* the detector with the threshold the processor holds at the call, classifies the
\* text with the keyword list it holds at the call, and applies the blur rules it
\* holds at the call (with every rule "none" the returned frame equals the input).
C8_CurrentConfiguration ==
  last.called =>
    /\ last.confidence_used = last.processor.detection_confidence
    /\ last.keywords_used = last.processor.sensitive_keywords
    /\ (Returned /\ RulesAtCall = none_rules) =>
         \A p \in Pixels : OutputPixel(p) = InputPixel(p)

\* a call under settings that were all set after construction
C8_Witness ==
  /\ Returned
  /\ last.processor.detection_confidence = 0
  /\ last.processor.sensitive_keywords = hello_keywords
  /\ last.processor.blur_rules = mixed_rules
  /\ last.confidence_used = 0
  /\ last.keywords_used = hello_keywords
  /\ \E p \in Pixels : OutputPixel(p) # InputPixel(p)

\* C9: frames are analysed independently: two calls of process_frame on the same
\* frame under the same configuration give the same outcome, the same output frame
\* and the same detection_counts, whatever was processed between them.
C9_FramesIndependent ==
  ( /\ ref.call.called
    /\ last.called
    /\ ref.call.scene = last.scene
    /\ ref.call.processor = last.processor )
  => /\ ref.call.exc = last.exc
     /\ ref.call.frame = last.frame
     /\ ref.call.detection_counts = last.detection_counts

\* the same frame under the same configuration again, after a call on another frame
\* under another configuration
C9_Witness ==
  /\ ref.call.called
  /\ ref.between
  /\ Returned
  /\ ref.call.scene = last.scene
  /\ ref.call.processor = last.processor
  /\ \E c \in CategorySet : Len(BoxSeq(c)) > 0
  /\ \E p \in Pixels : OutputPixel(p) # InputPixel(p)

\* C10: the mapping detect returns has an entry for each of face, document,
\* credit_card, license_plate and screen and no other key, on the primary path, on
\* the degraded path and when the primary path faults.
C10_FiveKeys ==
  (last.called /\ last.detect_exc = None) =>
    /\ Len(last.detected_objects) = Len(Categories)
    /\ {last.detected_objects[i][1] : i \in DOMAIN last.detected_objects} = CategorySet

\* detect returned after the primary path faulted on a class that is mapped to a
\* type outside the five
C10_Witness ==
  /\ last.called
  /\ last.detect_exc = None
  /\ last.scene = "lab"
  /\ object_detector.model # None
  /\ ~env.yolo_raises
  /\ last.confidence_used = 50

\* the frame the last call was given (process_frame leaves it as it was)
FrameAtCall == buffers[last.scene]

\* what the primary pass of detect gives on the frame of the last call: the loop over
\* the detections, then the license plate pass
PrimaryAtCall ==
  IF env.yolo_raises THEN [exc |-> "RuntimeError", results |-> initial_results]
  ELSE LET y == yolo_pass(yolo_boxes(FrameAtCall), last.confidence_used, initial_results)
       IN  IF y.exc # None THEN y ELSE plate_pass(plate_contours(FrameAtCall), y.results)

\* the last call ran the primary path and a fault occurred inside it
PrimaryFaulted ==
  last.called /\ object_detector.model # None /\ PrimaryAtCall.exc # None

\* what the degraded path of detect gives on the frame of the last call
DegradedAtCall ==
  detect([object_detector EXCEPT !.model = None], FrameAtCall, <<last.confidence_used>>, env)

\* C11: when a fault occurs inside the primary path, detect does not raise and its
\* result is the result of the degraded path on that frame, without any output of
\* the failed primary pass.
C11_FallbackIsDegradedPath ==
  PrimaryFaulted =>
    /\ last.detect_exc = None
    /\ DegradedAtCall.exc = None
    /\ last.detected_objects = DegradedAtCall.results

\* the boxes of the contours that meet the conditions of the license plate
\* heuristic: 4 vertices, aspect ratio in [2, 6], width > 60 and height > 20
RECURSIVE PlateBoxes(_)
PlateBoxes(contours) ==
  IF contours = <<>> THEN <<>>
  ELSE LET c == Head(contours)
           w == c[4]
           h == c[5]
       IN  (IF c[1] = 4 /\ h > 0 /\ 2 * h <= w /\ w <= 6 * h /\ w > 60 /\ h > 20
            THEN << <<c[2], c[3], c[2] + w, c[3] + h>> >>
            ELSE <<>>)
           \o PlateBoxes(Tail(contours))

\* C12: on every call of detect that returns, with the primary detector or without
\* it, the entry license_plate holds the boxes of exactly the contours of the frame
\* that meet the conditions of the license plate heuristic.
C12_PlateHeuristicAlwaysRuns ==
  (last.called /\ last.detect_exc = None) =>
    BoxSeq("license_plate") = PlateBoxes(plate_contours(FrameAtCall))

\* a region <<x1, y1, x2, y2>> of positive area inside the frame
ValidBox(box) ==
  /\ 0 <= box[1] /\ box[1] < box[3] /\ box[3] <= FrameW
  /\ 0 <= box[2] /\ box[2] < box[4] /\ box[4] <= FrameH

\* C13: every region detect returns and every region extract_text returns lies
\* inside the frame: 0 <= x1 < x2 <= width and 0 <= y1 < y2 <= height.
C13_RegionsInsideFrame ==
  (last.called /\ last.detect_exc = None) =>
    /\ \A c \in CategorySet : \A box \in Boxes(c) : ValidBox(box)
    /\ \A i \in DOMAIN last.text_regions : ValidBox(TextBox(last.text_regions[i]))

\* C14: a box of zero area and a box that is not inside the frame are skipped: the
\* call returns, and every pixel of the output that differs from the input lies in
\* a valid region of a category that is blurred or of a sensitive text fragment.
C14_InvalidRegionsSkipped ==
  (last.called /\ last.detect_exc = None) =>
    /\ last.exc = None
    /\ \A p \in Pixels :
         OutputPixel(p) # InputPixel(p) =>
           \/ \E c \in CategorySet :
                /\ MethodAtCall(c) # "none"
                /\ \E box \in Boxes(c) : ValidBox(box) /\ InBox(p, box)
           \/ \E box \in SensitiveTextBoxes : ValidBox(box) /\ InBox(p, box)

\* the last direct call was is_sensitive_text
Classified == unit.op = "is_sensitive_text"

\* an entry of a keyword list that is no keyword: not a str, or the empty string
Malformed(keyword) == keyword.type # "str" \/ keyword.s = <<>>

\* the entries of a keyword list that are keywords, in their order
RECURSIVE WellFormed(_)
WellFormed(keywords) ==
  IF keywords = <<>> THEN <<>>
  ELSE (IF Malformed(Head(keywords)) THEN <<>> ELSE <<Head(keywords)>>)
       \o WellFormed(Tail(keywords))

\* C15: with a keyword list that has an empty string or an entry that is not a str,
\* is_sensitive_text does not raise and classifies every text as it does with the
\* malformed entries taken out of the list.
C15_MalformedKeywordsNoRule ==
  (Classified /\ \E i \in DOMAIN unit.keywords : Malformed(unit.keywords[i])) =>
    /\ unit.result.exc = None
    /\ unit.result.value =
         is_sensitive_text([text_analyzer EXCEPT
                              !.sensitive_keywords = WellFormed(unit.keywords)],
                           unit.text).value

\* a keyword of the list occurs in the text when letter case is ignored
KeywordOccurs(keywords, text) ==
  \E i \in DOMAIN keywords :
    keywords[i].type = "str" /\ str_contains(lower(text), lower(keywords[i].s))

C17_ShortTextNotSensitive ==
  (Classified /\ Len(unit.text) < 3) =>
    /\ unit.result.exc = None
    /\ ~unit.result.value

\* a text of two characters that is a configured keyword
C17_Witness ==
  /\ Classified
  /\ unit.text = <<"a", "b">>
  /\ KeywordOccurs(unit.keywords, unit.text)
  /\ \A i \in DOMAIN unit.keywords : ~Malformed(unit.keywords[i])
  /\ ~unit.result.value

\* the object type and the region a detection of the primary detector stands for
DetectionType(d) ==
  LET obj_type == dict_get(class_mapping, d[6], None)
      width == d[3] - d[1]
      height == d[4] - d[2]
  IN  IF obj_type = "person" THEN "face"
      ELSE IF obj_type = "document"
      THEN IF height > 0 /\ 14 * height <= 10 * width /\ 10 * width <= 17 * height
           THEN "credit_card" ELSE "document"
      ELSE obj_type

DetectionBox(d) ==
  IF dict_get(class_mapping, d[6], None) = "person"
  THEN <<int(d[1]), int(d[2]), int(d[3]), int(d[2] + 2 * ((d[4] - d[2]) \div 6))>>
  ELSE <<int(d[1]), int(d[2]), int(d[3]), int(d[4])>>

\* the detections of the primary detector on the frame of the last call
DetectionsAtCall == {yolo_boxes(FrameAtCall)[i] : i \in DOMAIN yolo_boxes(FrameAtCall)}

\* the boxes an object type can hold without a detection of the primary detector:
\* the faces of the cascade, the boxes of the license plate pass
HeuristicBoxes(category) ==
  IF category = "face"
  THEN {<<f[1], f[2], f[1] + f[3], f[2] + f[4]>> :
          f \in {cascade_faces(FrameAtCall)[i] : i \in DOMAIN cascade_faces(FrameAtCall)}}
  ELSE IF category = "license_plate"
  THEN {PlateBoxes(plate_contours(FrameAtCall))[i] :
          i \in DOMAIN PlateBoxes(plate_contours(FrameAtCall))}
  ELSE {}

\* the last call ran detect with the primary detector, and detect returned
PrimaryReturned == last.called /\ object_detector.model # None /\ last.detect_exc = None

\* C18: with the primary detector, every region of the result of detect is the region
\* of a detection whose confidence is at least the threshold of the call, or comes
\* from a contour or cascade heuristic; and when the primary pass ends without a
\* fault, the boxes of the license plate contours are in the result whatever the
\* threshold is.
C18_ThresholdGatesDetections ==
  PrimaryReturned =>
    /\ \A category \in CategorySet : \A box \in Boxes(category) :
         \/ box \in HeuristicBoxes(category)
         \/ \E d \in DetectionsAtCall :
              /\ d[5] >= last.confidence_used
              /\ DetectionType(d) = category
              /\ DetectionBox(d) = box
    /\ PrimaryAtCall.exc = None =>
         HeuristicBoxes("license_plate") \subseteq Boxes("license_plate")

\* a call with the primary detector on a frame with a detection of a mapped class
\* below the threshold, whose region is not in the result, and with a license plate
\* contour, whose box is
C18_Witness ==
  /\ PrimaryReturned
  /\ PrimaryAtCall.exc = None
  /\ \E d \in DetectionsAtCall :
       /\ d[5] < last.confidence_used
       /\ DetectionType(d) \in CategorySet
       /\ DetectionBox(d) \notin Boxes(DetectionType(d))
  /\ \E d \in DetectionsAtCall :
       /\ d[5] >= last.confidence_used
       /\ DetectionType(d) \in CategorySet
       /\ DetectionBox(d) \in Boxes(DetectionType(d))
  /\ Boxes("license_plate") # {}

\* a method of BlurTechniques was called
Blurred == unit.op \in {"gaussian_blur", "pixelate", "edge_preserving_blur"}

\* the value of the optional parameter of the call: the one given, or the one of self
ParameterUsed ==
  IF unit.parameter # <<>> THEN unit.parameter[1]
  ELSE IF unit.op = "gaussian_blur" THEN unit.self.gaussian_kernel_size
  ELSE IF unit.op = "pixelate" THEN unit.self.pixelate_block_size
  ELSE unit.self.edge_preserving_diameter

\* the call met an exception inside the method: an OpenCV function that raises, a
\* kernel that is not odd and positive, a block size of 0
InternalException ==
  CASE unit.op = "gaussian_blur" ->
         "GaussianBlur" \in env.cv_fail
         \/ ParameterUsed[1] <= 0 \/ ParameterUsed[1] % 2 = 0
         \/ ParameterUsed[2] <= 0 \/ ParameterUsed[2] % 2 = 0
    [] unit.op = "pixelate" -> ParameterUsed = 0 \/ "resize" \in env.cv_fail
    [] unit.op = "edge_preserving_blur" ->
         {"edgePreservingFilter", "bilateralFilter"} \subseteq env.cv_fail

\* C19: gaussian_blur, pixelate and edge_preserving_blur never raise, and return
\* their input unchanged when it is None, when it has size 0, and when an exception
\* occurs inside the method (a block size of 0, an invalid kernel size, an OpenCV
\* function that raises).
C19_BlurNeverRaises ==
  Blurred =>
    /\ unit.result.exc = None
    /\ (unit.image.id = None \/ size(unit.image) = 0 \/ InternalException) =>
         unit.result.image = unit.image

\* pixelate called on a region of a frame with block_size 0 returned the region
C19_Witness ==
  /\ unit.op = "pixelate"
  /\ unit.image.id # None
  /\ size(unit.image) > 0
  /\ ParameterUsed = 0
  /\ "resize" \notin env.cv_fail
  /\ unit.result.exc = None
  /\ unit.result.image = unit.image

\* gaussian_blur called with None returned None
C19_WitnessNone ==
  /\ unit.op = "gaussian_blur"
  /\ unit.image.id = None
  /\ unit.result = [exc |-> None, image |-> NoneImage]

\* _detect_documents_and_cards ran on one contour of 4 vertices
ContourClassified == unit.op = "detect_documents_and_cards" /\ unit.contour[1] = 4

\* the category of a contour of 4 vertices by its bounding box w x h, None when it
\* is rejected or dropped; large says whether the box has the size of a document
CategoryOfBox(w, h, large) ==
  IF w < 50 \/ h < 50 THEN None
  ELSE IF 14 * h <= 10 * w /\ 10 * w <= 17 * h THEN "credit_card"
  ELSE IF 7 * h <= 10 * w /\ 10 * w <= 14 * h /\ large THEN "document"
  ELSE IF 17 * h < 10 * w /\ 10 * w <= 25 * h THEN "screen"
  ELSE IF 10 * w > 25 * h THEN "license_plate"
  ELSE None

\* the result holds the box of the contour under the category, and nothing else
OnlyUnder(category) ==
  LET c == unit.contour
      box == <<c[2], c[3], c[2] + c[4], c[3] + c[5]>>
  IN  /\ unit.result.exc = None
      /\ od_keys(unit.result.results) = Categories
      /\ \A k \in CategorySet :
           od_get(unit.result.results, k) = IF k = category THEN <<box>> ELSE <<>>

\* C20 as stated: a document is a box of at least 100 x 100 with w/h in [0.7, 1.4].
C20_DegradedBandsAtLeast100 ==
  ContourClassified =>
    OnlyUnder(CategoryOfBox(unit.contour[4], unit.contour[5],
                            unit.contour[4] >= 100 /\ unit.contour[5] >= 100))

\* C20: in degraded mode a contour of 4 vertices is put in at most one category by
\* its bounding box w x h: rejected if w < 50 or h < 50; otherwise credit_card if w/h
\* is in [1.4, 1.7]; document if w/h is in [0.7, 1.4] and the box is more than 100
\* wide and more than 100 high; screen if w/h is in (1.7, 2.5]; license_plate if
\* w/h > 2.5; dropped in every other case.
C20_DegradedBands ==
  ContourClassified =>
    OnlyUnder(CategoryOfBox(unit.contour[4], unit.contour[5],
                            unit.contour[4] > 100 /\ unit.contour[5] > 100))

\* a contour of 101 x 101 was put under document
C20_Witness ==
  /\ ContourClassified
  /\ unit.contour[4] = 101
  /\ unit.contour[5] = 101
  /\ od_get(unit.result.results, "document") = << <<0, 0, 101, 101>> >>

\* a contour of 100 x 100 was dropped
C20_WitnessDropped ==
  /\ ContourClassified
  /\ unit.contour[4] = 100
  /\ unit.contour[5] = 100
  /\ OnlyUnder(None)

\* the detections of the last call whose confidence is at least the threshold
AcceptedAtCall == {d \in DetectionsAtCall : d[5] >= last.confidence_used}

\* the last call ran detect with the primary detector, which reported its detections,
\* and detect returned
PrimaryDetected == PrimaryReturned /\ ~env.yolo_raises

\* the box of a detection, its coordinates truncated to integers
TruncatedBox(d) == <<int(d[1]), int(d[2]), int(d[3]), int(d[4])>>

\* the width/height ratio of a detection is in [1.4, 1.7]; a height of 0 is ratio 0
CardRatio(d) ==
  /\ d[4] - d[2] > 0
  /\ 14 * (d[4] - d[2]) <= 10 * (d[3] - d[1])
  /\ 10 * (d[3] - d[1]) <= 17 * (d[4] - d[2])

\* C21: with the primary detector, every detection at or above the threshold whose
\* class id is 57, 67 or 73 has its box, truncated to integers, under exactly one of
\* credit_card and document: under credit_card if and only if its width/height ratio
\* is in [1.4, 1.7].
C21_DocumentOrCard ==
  PrimaryDetected =>
    \A d \in AcceptedAtCall :
      d[6] \in {57, 67, 73} =>
        /\ TruncatedBox(d) \in Boxes("credit_card") <=> CardRatio(d)
        /\ TruncatedBox(d) \in Boxes("document") <=> ~CardRatio(d)

\* the number of times a box occurs in a sequence of boxes
Occurrences(boxes, box) == Cardinality({i \in DOMAIN boxes : boxes[i] = box})

\* the top third by height of the box of a detection
TopThird(d) ==
  <<int(d[1]), int(d[2]), int(d[3]), int(d[2] + 2 * ((d[4] - d[2]) \div 6))>>

\* C22: with the primary detector, every person detection at or above the threshold
\* adds exactly one face region, the top third by height of its box, and no region
\* under another category.
C22_PersonTopThird ==
  PrimaryDetected =>
    \A d \in AcceptedAtCall :
      d[6] = 0 =>
        /\ Occurrences(BoxSeq("face"), TopThird(d)) = 1
        /\ \A category \in CategorySet \ {"face"} :
             /\ TopThird(d) \notin Boxes(category)
             /\ TruncatedBox(d) \notin Boxes(category)

\* C28: with the primary detector, every detection at or above the threshold whose
\* class id is 63 (laptop) or 62 (tv) has its box under screen, and the detections of
\* the frame that follow it and the license plate pass are processed: the results are
\* those of a pass over all the detections, and hold the boxes of the plate contours.
C28_LaptopIsScreen ==
  PrimaryDetected =>
    /\ \A d \in AcceptedAtCall :
         d[6] \in {62, 63} => TruncatedBox(d) \in Boxes("screen")
    /\ (\E d \in AcceptedAtCall : d[6] = 63) =>
         /\ \A d \in AcceptedAtCall :
              DetectionType(d) \in CategorySet \ {"face"} =>
                TruncatedBox(d) \in Boxes(DetectionType(d))
         /\ HeuristicBoxes("license_plate") \subseteq Boxes("license_plate")

\* what the recognizer reports on the frame extract_text was called with
Recognized == ocr_data(buffers[unit.scene])

\* the confidence of a fragment is greater than 60 and its text is not empty after
\* stripping whitespace
Surfaced(d) == d.conf > 60 /\ \E i \in DOMAIN d.text : d.text[i] # " "

\* a recognized fragment as extract_text returns it: (text, (x, y, w, h))
Fragment(d) == [text |-> d.text, box |-> <<d.left, d.top, d.width, d.height>>]

\* the OCR capability is there and does not raise
OcrWorks == text_analyzer.tesseract_available /\ ~env.ocr_raises

\* C23: extract_text returns, in the order of the recognizer, exactly the recognized
\* fragments whose confidence is greater than 60 and whose text is not empty after
\* stripping whitespace; it returns the empty list when the OCR capability is
\* unavailable or raises.
C23_SurfacedFragments ==
  unit.op = "extract_text" =>
    IF OcrWorks
    THEN LET kept == SelectSeq(Recognized, Surfaced)
         IN  unit.result = [j \in DOMAIN kept |-> Fragment(kept[j])]
    ELSE unit.result = <<>>

\* extract_text on a frame where the recognizer reports a fragment of confidence 60,
\* a fragment without text and fragments that are surfaced
C23_Witness ==
  /\ unit.op = "extract_text"
  /\ OcrWorks
  /\ \E i \in DOMAIN Recognized : Recognized[i].conf = 60
  /\ \E i \in DOMAIN Recognized : Recognized[i].conf > 60 /\ ~Surfaced(Recognized[i])
  /\ unit.result # <<>>
  /\ Len(unit.result) < Len(Recognized)

\* extract_text without the OCR capability, on a frame with text, returned []
C23_WitnessUnavailable ==
  /\ unit.op = "extract_text"
  /\ ~text_analyzer.tesseract_available
  /\ \E i \in DOMAIN Recognized : Surfaced(Recognized[i])
  /\ unit.result = <<>>

\* the pixels of temp the result of pixelate shows: its distinct blocks
BlocksShown == {unit.result.cell[p] : p \in DOMAIN unit.result.cell}

\* the smallest integer that is at least n / b
CeilDiv(n, b) == (n + b - 1) \div b

\* C24: pixelate on a region of h x w with a block size B >= 1 resizes down to
\* max(1, floor(h / B)) x max(1, floor(w / B)) and back up to h x w: the result has
\* the dimensions of the input, every pixel of it shows a pixel of the array resized
\* down, and for a region of N x N it has at most ceil(N / B)^2 distinct blocks.  When
\* resize raises, the input is returned, which has the dimensions of the input.
C24_PixelateGrid ==
  unit.op = "pixelate_cells" =>
    /\ DOMAIN unit.result.cell = (0..(unit.height - 1)) \X (0..(unit.width - 1))
    /\ "resize" \notin env.cv_fail =>
         /\ unit.result.temp =
              << IF unit.height \div unit.block_size >= 1
                 THEN unit.height \div unit.block_size ELSE 1,
                 IF unit.width \div unit.block_size >= 1
                 THEN unit.width \div unit.block_size ELSE 1 >>
         /\ BlocksShown \subseteq
              (0..(unit.result.temp[1] - 1)) \X (0..(unit.result.temp[2] - 1))
         /\ unit.height = unit.width =>
              Cardinality(BlocksShown)
                <= CeilDiv(unit.height, unit.block_size) * CeilDiv(unit.height, unit.block_size)

\* pixelate on a square region whose side is larger than the block size and not a
\* multiple of it (7 x 7 with block size 3: resized down to 2 x 2): every pixel of the
\* array resized down is shown, and they are fewer than ceil(N / B)^2
C24_Witness ==
  /\ unit.op = "pixelate_cells"
  /\ "resize" \notin env.cv_fail
  /\ unit.height = unit.width
  /\ unit.height % unit.block_size # 0
  /\ unit.block_size > 1
  /\ unit.height > unit.block_size
  /\ Cardinality(BlocksShown) = unit.result.temp[1] * unit.result.temp[2]
  /\ unit.result.temp[1] < CeilDiv(unit.height, unit.block_size)

\* pixelate on a region smaller than the block: resized down to 1 x 1, one block
C24_WitnessOneCell ==
  /\ unit.op = "pixelate_cells"
  /\ "resize" \notin env.cv_fail
  /\ unit.height < unit.block_size
  /\ unit.width < unit.block_size
  /\ unit.result.temp = <<1, 1>>
  /\ BlocksShown = {<<0, 0>>}

\* edge_preserving_blur was called with an image that is not None and not of size 0
EdgePreserved ==
  /\ unit.op = "edge_preserving_blur"
  /\ unit.image.id # None
  /\ size(unit.image) > 0

\* C25: edge_preserving_blur calls the edge-preserving filter first and returns its
\* output when it succeeds, without calling the bilateral filter; when it raised, it
\* calls the bilateral filter with the same diameter and sigmas 75/75 and returns its
\* output when it succeeds; it returns the input unchanged only when both raised; no
\* exception leaves the call.
C25_FallbackChain ==
  EdgePreserved =>
    /\ unit.result.exc = None
    /\ unit.result.calls # <<>>
    /\ unit.result.calls[1].function = "edgePreservingFilter"
    /\ unit.result.calls[1].sigma_s = ParameterUsed
    /\ IF "edgePreservingFilter" \notin env.cv_fail
       THEN /\ Len(unit.result.calls) = 1
            /\ unit.result.image = cv2_filter("edge_preserving", unit.image)
       ELSE /\ Len(unit.result.calls) = 2
            /\ unit.result.calls[2] =
                 [function |-> "bilateralFilter", d |-> ParameterUsed,
                  sigmaColor |-> 75, sigmaSpace |-> 75]
            /\ unit.result.image =
                 IF "bilateralFilter" \notin env.cv_fail
                 THEN cv2_filter("bilateral", unit.image)
                 ELSE unit.image

\* the edge-preserving filter raised and the output of the bilateral filter was
\* returned
C25_Witness ==
  /\ EdgePreserved
  /\ "edgePreservingFilter" \in env.cv_fail
  /\ "bilateralFilter" \notin env.cv_fail
  /\ Len(unit.result.calls) = 2
  /\ unit.result.image = cv2_filter("bilateral", unit.image)
  /\ unit.result.image # unit.image

\* both filters raised and the input was returned
C25_WitnessBothRaised ==
  /\ EdgePreserved
  /\ {"edgePreservingFilter", "bilateralFilter"} \subseteq env.cv_fail
  /\ unit.result.image = unit.image

\* the largest x and y of the face that keep it inside the frame
FaceLimitX == demo.width - demo.face_img[2]

FaceLimitY == demo.height - demo.face_img[1]

\* C30: with the face placeholder of 100 x 100, after any number of calls of
\* get_frame the face is inside the frame of 640 x 480: 0 <= face_pos.x <= width - 100
\* and 0 <= face_pos.y <= height - 100, the face is drawn whole, and a call reverses
\* the direction of an axis exactly when the new position is on an edge of that axis.
C30_FaceStaysInside ==
  /\ 0 <= demo.face_pos[1] /\ demo.face_pos[1] <= FaceLimitX
  /\ 0 <= demo.face_pos[2] /\ demo.face_pos[2] <= FaceLimitY
  /\ unit.op = "get_frame" =>
       /\ unit.face = <<demo.face_pos[1], demo.face_pos[2], demo.face_img[2], demo.face_img[1]>>
       /\ demo.face_direction[1] = -unit.before.face_direction[1]
            <=> demo.face_pos[1] \in {0, FaceLimitX}
       /\ demo.face_direction[2] = -unit.before.face_direction[2]
            <=> demo.face_pos[2] \in {0, FaceLimitY}
       /\ demo.face_direction[1] \in {1, -1}
       /\ demo.face_direction[2] \in {1, -1}

\* the face reached the right edge (x = 540) and the direction of x was reversed
C30_Witness ==
  /\ unit.op = "get_frame"
  /\ demo.face_pos[1] = FaceLimitX
  /\ unit.before.face_direction[1] = 1
  /\ demo.face_direction[1] = -1

\* the face came back to the top edge (y = 0) and the direction of y was reversed
C30_WitnessTopEdge ==
  /\ unit.op = "get_frame"
  /\ demo.face_pos[2] = 0
  /\ unit.before.face_direction[2] = -1
  /\ demo.face_direction[2] = 1

\* the face came back to the left edge (x = 0) and moves to the right again
C30_WitnessLeftEdge ==
  /\ unit.op = "get_frame"
  /\ demo.face_pos[1] = 0
  /\ demo.face_direction[1] = 1

\* the video loop runs with a detection session open
SessionOpen == app.pc \in {"while", "process", "display"} /\ app.detection_session_id # <<>>

\* the loop was left because the webcam was switched off (the test of the while) or
\* because a read failed
LoopStopped == app.exit_at \in {"while", "read"}

\* the loop was left because process_frame raised
ProcessRaised == app.exit_at = "process"

\* C26: while a detection session is open, the loop goes on to every 10th frame and
\* logs one (category, blur method) event for each object detected in it (every frame
\* of the camera shows an object), so that the statistics of the session report the
\* logged objects: a run with a session open leads to detections logged in the
\* database, unless the webcam is switched off, a read fails or process_frame raises
\* before the 10th frame.
C26_DetectionsLogged ==
  SessionOpen ~> (LoopStopped \/ ProcessRaised \/ db.detections # <<>>)

\* C27: when the processing of a frame completes, the loop goes on to the display and
\* to the next read: the loop is left only when a read fails or the webcam is
\* switched off, never because of the detection summary.
C27_LoopKeepsRunning ==
  (app.pc \in {"finally", "done"} /\ ~ProcessRaised) => LoopStopped

\* the rows of a table that are marked is_default
Defaults(table) == {i \in DOMAIN table : table[i].is_default}

\* the names of the rows of a table, in the order of the rows
Names(table) == [i \in DOMAIN table |-> table[i].name]

\* C29: starting from empty tables, after any number of calls of
\* create_default_blur_rules and create_default_keyword_lists, none of which raises,
\* a table that was seeded holds exactly three rows, of which exactly one, Default
\* Privacy or Standard Keywords, is marked is_default.
C29_SeedingIdempotent ==
  /\ unit.op \in {"create_default_blur_rules", "create_default_keyword_lists"} =>
       unit.exc = None
  /\ (unit.op = "create_default_blur_rules" \/ db.blur_rules # <<>>) =>
       /\ Names(db.blur_rules) = <<"Default Privacy", "High Privacy", "Professional Call">>
       /\ Defaults(db.blur_rules) = {1}
  /\ (unit.op = "create_default_keyword_lists" \/ db.sensitive_keyword_lists # <<>>) =>
       /\ Names(db.sensitive_keyword_lists)
            = <<"Standard Keywords", "Financial Keywords", "Healthcare Keywords">>
       /\ Defaults(db.sensitive_keyword_lists) = {1}

\* create_default_blur_rules was called three times in a row after the keyword lists
\* were seeded: three presets and three lists
C29_Witness ==
  /\ unit.op = "create_default_blur_rules"
  /\ unit.times = MaxSeedCalls
  /\ Len(db.blur_rules) = 3
  /\ Len(db.sensitive_keyword_lists) = 3

====
